---------------------------- MODULE Spec2Model ----------------------------
(***************************************************************************)
(* Feature-edge extractor (extract-wireframe.mjs, the script that follows  *)
(* the layout component in src/src/app/layout.tsx): face normals, the      *)
(* edge -> face adjacency map, the per-zone edge filter and the vertex     *)
(* compactor, as one run-to-completion pipeline.                           *)
(* Two components of the site follow the extractor, each under its own     *)
(* specification: FloatingDock (DockSpec) and LensCursor (CursorSpec).     *)
(*                                                                         *)
(* Number representation (exact arithmetic, no floating-point rounding):   *)
(*   - coordinates and lengths are fixed point, in tenths of a model unit  *)
(*     (minLength 1.8 is 18, xMax 38 is 380); vertex coordinates are even  *)
(*     numbers of tenths, so that every midpoint is exact;                 *)
(*   - angles are in hundredths of a degree (13.75 degrees is 1375);       *)
(*   - a length l is carried as its square l*l (Math.sqrt is monotone, so  *)
(*     the comparisons of the code become comparisons of squares);         *)
(*   - a unit vector is carried as the primitive integer vector of its     *)
(*     direction (v / |v| and w / |w| are the same unit vector exactly     *)
(*     when v and w have the same primitive vector).                       *)
(***************************************************************************)
EXTENDS Integers, Sequences, FiniteSets

VARIABLES
    argv,          \* the command line after the script name (process.argv.slice(2))
    opts,          \* the parsed command-line options (parseArgs)
    gltf,          \* the input file: its accessors, its positions and its index bytes
    pc,            \* position of the script
    positions,     \* loadGLTF: flat position array, 3 numbers per vertex
    indices,       \* loadGLTF: flat index array, 3 indices per triangle
    f,             \* loop counter of the two per-triangle loops
    faceNormals,   \* one unit normal per face
    edgeFaces,     \* the Map edge key -> face ids, in insertion order
    e,             \* number of Map entries the filter loop has consumed
    featureEdges,  \* the kept edges, pairs [a, b]
    stats,         \* global per-category counters
    zoneStats,     \* per-zone counters
    usedVertices,  \* the Set of referenced vertices, in insertion order
    vertexMap,     \* the Map source vertex -> output index
    outVertices,   \* flat output position array
    outIndices,    \* flat output index array
    result,        \* the value returned by extractFeatureEdges (empty until it returns)
    written,       \* the document written to opts.output (empty until written)
    \* FloatingDock (src/components/FloatingDock.tsx)
    isExpanded,         \* useState(false): expansion by scroll or by click
    isHovering,         \* useState(false): pointer over the dock
    activeSection,      \* useState("hero")
    isModalOpen,        \* useState(false): body carries data-modal-open
    isManuallyOpenRef,  \* useRef(false): the dock was opened by a click
    lastScrollY,        \* useRef(0): window.scrollY at the last scroll event
    dockEvent,          \* the event the dock handled last
    \* LensCursor
    mode,                   \* useState("default")
    isHidden,               \* useState(false)
    currentMagneticTarget,  \* useRef(null): the tracked magnetic target
    posRef,                 \* useRef({x: 0, y: 0}): last pointer position
    cursorOpacity,          \* target of the opacity spring, in hundredths
    springs,                \* targets of the width, height, borderRadius, scale springs
    dispatched,             \* the CustomEvents the last handler dispatched, in order
    cursorEvent             \* the event the cursor handled last

vars == <<argv, opts, gltf, pc, positions, indices, f, faceNormals, edgeFaces, e,
          featureEdges, stats, zoneStats, usedVertices, vertexMap,
          outVertices, outIndices, result, written>>

dockVars == <<isExpanded, isHovering, activeSection, isModalOpen, isManuallyOpenRef,
              lastScrollY, dockEvent>>

cursorVars == <<mode, isHidden, currentMagneticTarget, posRef, cursorOpacity, springs,
                dispatched, cursorEvent>>

(***************************************************************************)
(* Bounds of the model                                                     *)
(***************************************************************************)
MaxTris == 3

(***************************************************************************)
(* SPATIAL ZONE DEFINITIONS                                                *)
(***************************************************************************)
ZONES ==
    << [name |-> "Engine Intakes (Right)",
        xMin |-> 150, xMax |-> 380, yMin |-> 80, yMax |-> 380, zMin |-> 950, zMax |-> 1500,
        threshold |-> 800, minLength |-> 5],
       [name |-> "Engine Intakes (Left)",
        xMin |-> 600, xMax |-> 830, yMin |-> 80, yMax |-> 380, zMin |-> 950, zMax |-> 1500,
        threshold |-> 1000, minLength |-> 20],
       [name |-> "Cockpit / Nose",
        xMin |-> 350, xMax |-> 630, yMin |-> 80, yMax |-> 380, zMin |-> 1600, zMax |-> 2150,
        threshold |-> 1000, minLength |-> 8],
       [name |-> "Tail / Rudders",
        xMin |-> 0, xMax |-> 980, yMin |-> 80, yMax |-> 380, zMin |-> 190, zMax |-> 600,
        threshold |-> 800, minLength |-> 80],
       [name |-> "Right Wing",
        xMin |-> 0, xMax |-> 150, yMin |-> 80, yMax |-> 380, zMin |-> 190, zMax |-> 2150,
        threshold |-> 1000, minLength |-> 8],
       [name |-> "Left Wing",
        xMin |-> 830, xMax |-> 980, yMin |-> 80, yMax |-> 380, zMin |-> 190, zMax |-> 2150,
        threshold |-> 100, minLength |-> 8],
       [name |-> "Engine Exhaust Area",
        xMin |-> 150, xMax |-> 830, yMin |-> 80, yMax |-> 220, zMin |-> 200, zMax |-> 850,
        threshold |-> 2000, minLength |-> 20] >>

DefaultZoneName == "Fuselage (default)"

ZoneNames == {ZONES[i].name : i \in 1..Len(ZONES)} \cup {DefaultZoneName}

(***************************************************************************)
(* Vector math                                                             *)
(***************************************************************************)
sub(a, b) == <<a[1] - b[1], a[2] - b[2], a[3] - b[3]>>

cross(a, b) ==
    << a[2] * b[3] - a[3] * b[2],
       a[3] * b[1] - a[1] * b[3],
       a[1] * b[2] - a[2] * b[1] >>

dot(a, b) == a[1] * b[1] + a[2] * b[2] + a[3] * b[3]

\* the length of v, carried as its square
vecLength(v) == v[1] * v[1] + v[2] * v[2] + v[3] * v[3]

Abs(x) == IF x < 0 THEN -x ELSE x

RECURSIVE GCD(_, _)
GCD(x, y) == IF y = 0 THEN x ELSE GCD(y, x % y)

\* variant: a vector of length zero is given the direction of the x axis
normalizeToAxis(v) ==
    LET l == vecLength(v)
        g == GCD(GCD(Abs(v[1]), Abs(v[2])), Abs(v[3]))
    IN  IF l > 0 THEN <<v[1] \div g, v[2] \div g, v[3] \div g>> ELSE <<1, 0, 0>>

\* v / |v| as the primitive vector of the direction of v; the zero vector
\* when the length is zero
normalize(v) ==
    LET l == vecLength(v)
        g == GCD(GCD(Abs(v[1]), Abs(v[2])), Abs(v[3]))
    IN  IF l > 0 THEN <<v[1] \div g, v[2] \div g, v[3] \div g>> ELSE <<0, 0, 0>>

\* the distance of a and b, carried as its square
dist(a, b) == vecLength(sub(a, b))

midpoint(a, b) == <<(a[1] + b[1]) \div 2, (a[2] + b[2]) \div 2, (a[3] + b[3]) \div 2>>

\* the value parseFloat yields for a text that does not start with a number:
\* it is below no number, above no number and equal to none
NaN == -999999999

\* variant: x <= m
LenLessOrEqual(lenSq, m) == m # NaN /\ m >= 0 /\ lenSq <= m * m

\* x < m and x > m for a length x carried as its square lenSq and a number m
LenLess(lenSq, m) == m # NaN /\ m > 0 /\ lenSq < m * m
LenGreater(lenSq, m) == m # NaN /\ (m < 0 \/ lenSq > m * m)

\* cos^2 of an angle of t hundredths of a degree, times 10000, for the
\* thresholds that occur (the zone table and the option values)
CosSq(t) ==
    CASE t = 100   -> 9996
      [] t = 800   -> 9806
      [] t = 1000  -> 9698
      [] t = 1375  -> 9435
      [] t = 2000  -> 8830
      [] t = 10000 -> 301

\* variant: the angle between the planes of the faces, whichever way they
\* are wound
AngleGreaterUnsigned(n1, n2, t) ==
    LET zero == vecLength(n1) = 0 \/ vecLength(n2) = 0
        num  == IF zero THEN 0 ELSE Abs(dot(n1, n2))
        den  == IF zero THEN 1 ELSE vecLength(n1) * vecLength(n2)
    IN  IF t = NaN THEN FALSE
        ELSE IF t < 0 THEN TRUE
        ELSE IF t >= 9000 THEN FALSE
        ELSE num * num * 10000 < CosSq(t) * den

\* Math.acos(Math.max(-1, Math.min(1, dot(n1, n2)))) > t * Math.PI / 180 for
\* unit normals n1, n2 (zero for a degenerate face) and t in hundredths of a
\* degree.  acos is decreasing on [-1, 1]: the angle exceeds t exactly when
\* its cosine num / sqrt(den) is below cos t.
AngleGreater(n1, n2, t) ==
    LET zero == vecLength(n1) = 0 \/ vecLength(n2) = 0
        num  == IF zero THEN 0 ELSE dot(n1, n2)
        den  == IF zero THEN 1 ELSE vecLength(n1) * vecLength(n2)
    IN  IF t = NaN THEN FALSE
        ELSE IF t < 0 THEN TRUE
        ELSE IF t >= 18000 THEN FALSE
        ELSE IF t < 9000 THEN num < 0 \/ num * num * 10000 < CosSq(t) * den
        ELSE IF t = 9000 THEN num < 0
        ELSE num < 0 /\ num * num * 10000 > CosSq(t) * den

(***************************************************************************)
(* Zone lookup                                                             *)
(***************************************************************************)
\* variant: a point on a face of the box is outside
InZoneStrict(point, zone) ==
    /\ point[1] > zone.xMin /\ point[1] < zone.xMax
    /\ point[2] > zone.yMin /\ point[2] < zone.yMax
    /\ point[3] > zone.zMin /\ point[3] < zone.zMax

InZone(point, zone) ==
    /\ point[1] >= zone.xMin /\ point[1] <= zone.xMax
    /\ point[2] >= zone.yMin /\ point[2] <= zone.yMax
    /\ point[3] >= zone.zMin /\ point[3] <= zone.zMax

\* the position in ZONES of the zone findZone returns, 0 for null
RECURSIVE findZoneFrom(_, _)
findZoneFrom(point, i) ==
    IF i > Len(ZONES) THEN 0
    ELSE IF InZone(point, ZONES[i]) THEN i
    ELSE findZoneFrom(point, i + 1)

\* variant: the last containing zone instead of the first
RECURSIVE findZoneBack(_, _)
findZoneBack(point, i) ==
    IF i < 1 THEN 0
    ELSE IF InZone(point, ZONES[i]) THEN i
    ELSE findZoneBack(point, i - 1)

findZoneLast(point) == findZoneBack(point, Len(ZONES))

findZone(point) == findZoneFrom(point, 1)

(***************************************************************************)
(* Edge key utility                                                        *)
(***************************************************************************)
Digit == <<"0", "1", "2", "3", "4", "5", "6", "7", "8", "9">>

\* the decimal digits of a non-negative integer, as `${n}` prints them
RECURSIVE Decimal(_)
Decimal(n) == IF n < 10 THEN <<Digit[n + 1]>> ELSE Append(Decimal(n \div 10), Digit[(n % 10) + 1])

\* variant: the key keeps the order of its arguments
edgeKeyUnordered(a, b) == Decimal(a) \o <<"_">> \o Decimal(b)

edgeKey(a, b) == IF a < b THEN Decimal(a) \o <<"_">> \o Decimal(b)
                          ELSE Decimal(b) \o <<"_">> \o Decimal(a)

DigitValue(c) == CHOOSE d \in 0..9 : Digit[d + 1] = c

\* parseInt of a string of decimal digits
RECURSIVE parseInt(_)
parseInt(s) ==
    IF Len(s) = 1 THEN DigitValue(s[1])
    ELSE parseInt(SubSeq(s, 1, Len(s) - 1)) * 10 + DigitValue(s[Len(s)])

\* ek.split("_"): the two parts of a key around its separator
SepAt(ek) == CHOOSE i \in 1..Len(ek) : ek[i] = "_"
split(ek) == <<SubSeq(ek, 1, SepAt(ek) - 1), SubSeq(ek, SepAt(ek) + 1, Len(ek))>>


(***************************************************************************)
(* CLI args                                                                *)
(***************************************************************************)
\* the characters of the texts that follow a numeric option on the command
\* lines of the model
Chars(s) ==
    CASE s = "100"       -> <<"1", "0", "0">>
      [] s = "4.2"       -> <<"4", ".", "2">>
      [] s = "10"        -> <<"1", "0">>
      [] s = "0"         -> <<"0">>
      [] s = "4"         -> <<"4">>
      [] s = "1000"      -> <<"1", "0", "0", "0">>
      [] s = "180"       -> <<"1", "8", "0">>
      [] s = "-5"        -> <<"-", "5">>
      [] s = "abc"       -> <<"a", "b", "c">>
      [] s = "undefined" -> <<"u", "n", "d", "e", "f", "i", "n", "e", "d">>

IsDigit(c) == \E d \in 1..10 : Digit[d] = c

\* the number of decimal digits of cs from position i on
RECURSIVE DigitRun(_, _)
DigitRun(cs, i) == IF i <= Len(cs) /\ IsDigit(cs[i]) THEN 1 + DigitRun(cs, i + 1) ELSE 0

\* the value of the digits ds after the decimal point, the first one
\* weighing unit
RECURSIVE Fraction(_, _)
Fraction(ds, unit) ==
    IF Len(ds) = 0 \/ unit = 0 THEN 0
    ELSE DigitValue(ds[1]) * unit + Fraction(Tail(ds), unit \div 10)

\* parseFloat(s) in units of 1/scale: the longest prefix [+-]digits[.digits]
\* of s is read and what follows it is ignored; NaN when that prefix has no
\* digit.  (No text of the model has an exponent, leading blanks or more
\* decimals than the unit carries.)
parseFloat(s, scale) ==
    LET cs    == Chars(s)
        neg   == Len(cs) > 0 /\ cs[1] = "-"
        start == IF Len(cs) > 0 /\ (cs[1] = "-" \/ cs[1] = "+") THEN 2 ELSE 1
        n     == DigitRun(cs, start)
        point == start + n <= Len(cs) /\ cs[start + n] = "."
        m     == IF point THEN DigitRun(cs, start + n + 1) ELSE 0
        whole == IF n = 0 THEN 0 ELSE parseInt(SubSeq(cs, start, start + n - 1))
        frac  == Fraction(SubSeq(cs, start + n + 1, start + n + m), scale \div 10)
        mag   == whole * scale + frac
    IN  IF n = 0 /\ m = 0 THEN NaN ELSE IF neg THEN 0 - mag ELSE mag

\* the opts literal of parseArgs: angles in hundredths of a degree, lengths
\* in tenths of a unit
DefaultOpts ==
    [input |-> "public/sr71.gltf", output |-> "public/sr71-wireframe.json",
     threshold |-> 1375, minLength |-> 18, featureLength |-> 350,
     boundary |-> TRUE, zones |-> TRUE, stats |-> FALSE]

\* args[i], undefined past the end of args
Arg(args, i) == IF i <= Len(args) THEN args[i] ELSE "undefined"

\* the loop of parseArgs from position i on; an unknown option is skipped
\* with a warning
RECURSIVE parseArgsFrom(_, _, _)
parseArgsFrom(args, i, o) ==
    IF i > Len(args) THEN o
    ELSE CASE args[i] = "--input" ->
                parseArgsFrom(args, i + 2, [o EXCEPT !.input = Arg(args, i + 1)])
           [] args[i] = "--output" ->
                parseArgsFrom(args, i + 2, [o EXCEPT !.output = Arg(args, i + 1)])
           [] args[i] = "--threshold" ->
                parseArgsFrom(args, i + 2,
                              [o EXCEPT !.threshold = parseFloat(Arg(args, i + 1), 100)])
           [] args[i] = "--min-length" ->
                parseArgsFrom(args, i + 2,
                              [o EXCEPT !.minLength = parseFloat(Arg(args, i + 1), 10)])
           [] args[i] = "--feature-length" ->
                parseArgsFrom(args, i + 2,
                              [o EXCEPT !.featureLength = parseFloat(Arg(args, i + 1), 10)])
           [] args[i] = "--boundary" ->
                parseArgsFrom(args, i + 1, [o EXCEPT !.boundary = TRUE])
           [] args[i] = "--no-boundary" ->
                parseArgsFrom(args, i + 1, [o EXCEPT !.boundary = FALSE])
           [] args[i] = "--no-zones" ->
                parseArgsFrom(args, i + 1, [o EXCEPT !.zones = FALSE])
           [] args[i] = "--stats" ->
                parseArgsFrom(args, i + 1, [o EXCEPT !.stats = TRUE])
           [] OTHER -> parseArgsFrom(args, i + 1, o)

parseArgs(args) == parseArgsFrom(args, 1, DefaultOpts)

(***************************************************************************)
(* Inputs: the command lines and the files loadGLTF reads                  *)
(***************************************************************************)
\* five vertices around the point o: 0 and 1 on a line along x, 2 and 3 to
\* either side of it in the plane y = o[2], 4 above it
Cluster(o) ==
    << o[1] - 20, o[2], o[3],
       o[1] + 20, o[2], o[3],
       o[1], o[2], o[3] + 40,
       o[1], o[2], o[3] - 40,
       o[1], o[2] + 40, o[3] >>

\* a cluster inside "Tail / Rudders" and "Right Wing", and one half inside
\* "Right Wing" and half inside no zone
Origins == {<<60, 100, 300>>, <<150, 100, 920>>}

\* a face on the edges 1-2 and 1-4, two windings of the edge 0-1, a third
\* face on the edge 0-1, a degenerate face
Triangles == << <<2, 1, 4>>, <<0, 1, 2>>, <<1, 0, 3>>, <<0, 1, 4>>, <<0, 0, 1>> >>

Min(S) == CHOOSE x \in S : \A y \in S : x <= y

\* the flat index array of the faces of Triangles at the positions S
RECURSIVE Pick(_)
Pick(S) == IF S = {} THEN <<>> ELSE Triangles[Min(S)] \o Pick(S \ {Min(S)})

\* the index arrays of at most n of these faces
IndexBuffers(n) == {Pick(S) : S \in {T \in SUBSET (1..Len(Triangles)) : Cardinality(T) <= n}}

\* the bytes of the unsigned integer v in a buffer, lowest first
RECURSIVE LittleEndian(_, _)
LittleEndian(v, width) ==
    IF width = 0 THEN <<>> ELSE <<v % 256>> \o LittleEndian(v \div 256, width - 1)

\* the buffer an exporter writes for the index values vs
RECURSIVE IndexBytes(_, _)
IndexBytes(vs, width) ==
    IF vs = <<>> THEN <<>> ELSE LittleEndian(Head(vs), width) \o IndexBytes(Tail(vs), width)

\* a .gltf document with its two accessors and its buffer: the positions as
\* the numbers they hold, the indices as bytes
File(ps, vs, componentType, width) ==
    [accessors |-> << [count |-> Len(ps) \div 3],
                      [count |-> Len(vs), componentType |-> componentType] >>,
     positions |-> ps,
     indexBytes |-> IndexBytes(vs, width)]

\* fifteen vertices indexed with 32-bit indices, two-digit vertex indices
\* among them: the cluster in "Tail / Rudders" and "Right Wing", one on the
\* common face of "Engine Intakes (Right)" and "Right Wing", one in no zone
WideFile ==
    File(Cluster(<<60, 100, 300>>) \o Cluster(<<150, 100, 1000>>)
            \o Cluster(<<480, 300, 700>>),
         <<10, 11, 12, 11, 10, 13, 1, 0, 3, 5, 6, 7, 5, 6, 9>>, 5125, 4)

\* a file whose indices are unsigned bytes
ByteFile == File(Cluster(<<60, 100, 300>>), <<0, 1, 2, 1, 0, 3>>, 5121, 1)

\* a file without an index accessor
NoIndexFile ==
    [accessors |-> << [count |-> 5] >>, positions |-> Cluster(<<60, 100, 300>>),
     indexBytes |-> <<>>]

\* a file that declares 32-bit indices over a buffer of 16-bit ones
ShortFile == File(Cluster(<<60, 100, 300>>), <<0, 1, 2, 1, 0, 3>>, 5125, 2)

\* three faces in one plane, in no zone: the first two wound opposite ways
\* on the edge 0-1, the first and the third wound the same way on the edge
\* 1-2
FoldFile == File(Cluster(<<480, 300, 700>>), <<0, 1, 2, 0, 1, 3, 3, 1, 2>>, 5123, 2)

\* the unit square in the plane z = 0, split by the diagonal 0-2
SquareFile ==
    File(<<0, 0, 0,  10, 0, 0,  10, 10, 0,  0, 10, 0>>, <<0, 1, 2, 0, 2, 3>>, 5123, 2)

\* a cube of side 4.4 inside "Left Wing" and no other zone, two faces to a
\* side, wound outwards; vertex 4x + 2y + z for x, y, z in {0, 1}
CubeFile ==
    File(<< 860, 100, 1000,  860, 100, 1044,  860, 144, 1000,  860, 144, 1044,
            904, 100, 1000,  904, 100, 1044,  904, 144, 1000,  904, 144, 1044 >>,
         << 0, 1, 3,  0, 3, 2,  4, 7, 5,  4, 6, 7,
            0, 4, 5,  0, 5, 1,  2, 7, 6,  2, 3, 7,
            0, 2, 6,  0, 6, 4,  1, 7, 3,  1, 5, 7 >>, 5123, 2)

\* two faces of one plane on an edge of length 4.4, around the point o
Pair(o) ==
    << o[1] - 22, o[2], o[3],
       o[1] + 22, o[2], o[3],
       o[1], o[2], o[3] + 40,
       o[1], o[2], o[3] - 40 >>

\* two such pairs, wound alike: one inside "Engine Intakes (Right)", one in
\* no zone
TwinFile ==
    File(Pair(<<260, 200, 1200>>) \o Pair(<<480, 300, 700>>),
         <<0, 1, 2, 1, 0, 3, 4, 5, 6, 5, 4, 7>>, 5123, 2)

GltfFiles ==
    {File(Cluster(o), ib, 5123, 2) : o \in Origins, ib \in IndexBuffers(MaxTris)}
    \cup {WideFile, ByteFile, NoIndexFile, ShortFile, FoldFile, SquareFile, CubeFile,
          TwinFile}

\* each option left at its default or set, and the command lines that give
\* a numeric option no number, an angle outside [0, 180), the length 4.0 of
\* the edge 0-1 of a cluster, or the values of the unit-square scenario
CommandLines ==
    {t \o m \o l \o b \o z :
        t \in {<<>>, <<"--threshold", "100">>},
        m \in {<<>>, <<"--min-length", "4.2">>},
        l \in {<<>>, <<"--feature-length", "4.2">>},
        b \in {<<>>, <<"--no-boundary">>},
        z \in {<<>>, <<"--no-zones">>}}
    \cup {<<"--threshold", "abc">>, <<"--min-length", "abc">>,
          <<"--feature-length", "abc">>,
          <<"--threshold", "180">>, <<"--threshold", "-5">>,
          <<"--threshold", "180", "--min-length", "4", "--feature-length", "4",
            "--no-zones">>,
          <<"--stats", "--threshold", "10", "--min-length", "0",
            "--feature-length", "1000", "--boundary">>,
          <<"--verbose", "--threshold", "10", "--min-length", "0",
            "--feature-length", "1000", "--no-boundary">>}

(***************************************************************************)
(* State at the start of the script                                        *)
(***************************************************************************)
ZeroZoneStats == [n \in ZoneNames |-> [sharp |-> 0, tooShort |-> 0, coplanar |-> 0]]

ZeroStats == [sharp |-> 0, long |-> 0, boundary |-> 0, tooShort |-> 0, coplanar |-> 0, nonManifold |-> 0]

\* FloatingDock after its first render and its mount effects: every useState and
\* useRef at its initial value, no data-modal-open on the body
DockMounted ==
    /\ isExpanded = FALSE
    /\ isHovering = FALSE
    /\ activeSection = "hero"
    /\ isModalOpen = FALSE
    /\ isManuallyOpenRef = FALSE
    /\ lastScrollY = 0
    /\ dockEvent = "mount"

\* the spring targets the mode effect sets for a mode (scale in hundredths)
modeSprings(m) ==
    IF m = "pointer" THEN [width |-> 50, height |-> 50, borderRadius |-> 15, scale |-> 100]
    ELSE IF m = "text" THEN [width |-> 3, height |-> 27, borderRadius |-> 2, scale |-> 100]
    ELSE [width |-> 20, height |-> 20, borderRadius |-> 10, scale |-> 100]

\* LensCursor after its first render and its mount effects on a device with a mouse
CursorMounted ==
    /\ mode = "default"
    /\ isHidden = FALSE
    /\ currentMagneticTarget = "null"
    /\ posRef = [x |-> 0, y |-> 0]
    /\ cursorOpacity = 100
    /\ springs = modeSprings("default")
    /\ dispatched = <<>>
    /\ cursorEvent = "mount"

Init ==
    /\ argv \in CommandLines
    /\ opts = DefaultOpts
    /\ gltf \in GltfFiles
    /\ pc = "args"
    /\ positions = <<>>
    /\ indices = <<>>
    /\ f = 0
    /\ faceNormals = <<>>
    /\ edgeFaces = <<>>
    /\ e = 0
    /\ featureEdges = <<>>
    /\ stats = ZeroStats
    /\ zoneStats = ZeroZoneStats
    /\ usedVertices = <<>>
    /\ vertexMap = <<>>
    /\ outVertices = <<>>
    /\ outIndices = <<>>
    /\ result = <<>>
    /\ written = <<>>
    /\ DockMounted
    /\ CursorMounted

vertexCount == Len(positions) \div 3
triangleCount == Len(indices) \div 3

getVertex(i) == <<positions[i * 3 + 1], positions[i * 3 + 2], positions[i * 3 + 3]>>

(***************************************************************************)
(* Run: const opts = parseArgs()                                           *)
(***************************************************************************)
ReadArgs ==
    /\ pc = "args"
    /\ opts' = parseArgs(argv)
    /\ pc' = "load"
    /\ UNCHANGED <<argv, gltf, positions, indices, f, faceNormals, edgeFaces, e,
                   featureEdges, stats, zoneStats, usedVertices, vertexMap,
                   outVertices, outIndices, result, written>>
    /\ UNCHANGED <<dockVars, cursorVars>>

(***************************************************************************)
(* GLTF parser                                                             *)
(***************************************************************************)
\* element i of a typed array of count unsigned integers of width bytes each
\* over bytes
RECURSIVE ReadUint(_, _, _)
ReadUint(bytes, at, width) ==
    IF width = 0 THEN 0 ELSE bytes[at] + 256 * ReadUint(bytes, at + 1, width - 1)

TypedArray(bytes, width, count) ==
    [i \in 1..count |-> ReadUint(bytes, (i - 1) * width + 1, width)]

\* variant: 5123 read as 32-bit and 5125 as 16-bit
IndexWidthSwapped(componentType) ==
    IF componentType = 5123 THEN 4 ELSE IF componentType = 5125 THEN 2 ELSE 0

\* the bytes per index: Uint16Array for 5123, Uint32Array for 5125, 0 for a
\* type the parser does not support
IndexWidth(componentType) ==
    IF componentType = 5123 THEN 2 ELSE IF componentType = 5125 THEN 4 ELSE 0

\* gltf.accessors[1], undefined when the document has no second accessor
idxAccessor(file) ==
    IF Len(file.accessors) >= 2 THEN file.accessors[2]
    ELSE [count |-> 0, componentType |-> 0]

\* variant: only a typed array longer than the buffer stops the parser
LoadThrowsOnRange(file) ==
    \/ Len(file.positions) < file.accessors[1].count * 3
    \/ Len(file.indexBytes)
           < IndexWidth(idxAccessor(file).componentType) * idxAccessor(file).count

\* loadGLTF throws: a TypeError on a property of the undefined accessor, the
\* Error of the unsupported component type, a RangeError of a typed array
\* longer than the buffer
LoadThrows(file) ==
    \/ Len(file.accessors) < 2
    \/ Len(file.positions) < file.accessors[1].count * 3
    \/ IndexWidth(idxAccessor(file).componentType) = 0
    \/ Len(file.indexBytes)
           < IndexWidth(idxAccessor(file).componentType) * idxAccessor(file).count

\* an exception leaves the script, which has no handler.  With no triangle
\* none of the three loops over faces and edges has an iteration, and the
\* script is at the compactor next.
loadGLTF ==
    /\ pc = "load"
    /\ IF LoadThrows(gltf)
       THEN /\ pc' = "aborted"
            /\ UNCHANGED <<positions, indices>>
       ELSE LET posCount == gltf.accessors[1].count
                idxCount == idxAccessor(gltf).count
            IN  /\ positions' = SubSeq(gltf.positions, 1, posCount * 3)
                /\ indices' = TypedArray(gltf.indexBytes,
                                         IndexWidth(idxAccessor(gltf).componentType),
                                         idxCount)
                /\ pc' = IF idxCount \div 3 > 0 THEN "normals" ELSE "compact"
    /\ UNCHANGED <<argv, opts, gltf, f, faceNormals, edgeFaces, e, featureEdges, stats,
                   zoneStats, usedVertices, vertexMap, outVertices, outIndices,
                   result, written>>
    /\ UNCHANGED <<dockVars, cursorVars>>

(***************************************************************************)
(* Step 1: face normals                                                    *)
(***************************************************************************)
ComputeFaceNormal ==
    /\ pc = "normals"
    /\ f < triangleCount
    /\ LET i0 == indices[f * 3 + 1]
           i1 == indices[f * 3 + 2]
           i2 == indices[f * 3 + 3]
           v0 == getVertex(i0)
           v1 == getVertex(i1)
           v2 == getVertex(i2)
       IN  faceNormals' = Append(faceNormals, normalize(cross(sub(v1, v0), sub(v2, v0))))
    /\ IF f + 1 < triangleCount
       THEN f' = f + 1 /\ pc' = pc
       ELSE f' = 0 /\ pc' = "adjacency"
    /\ UNCHANGED <<argv, opts, gltf, positions, indices, edgeFaces, e, featureEdges, stats,
                   zoneStats, usedVertices, vertexMap, outVertices, outIndices,
                   result, written>>
    /\ UNCHANGED <<dockVars, cursorVars>>

(***************************************************************************)
(* Step 2: edge -> face adjacency map                                      *)
(***************************************************************************)
MapHas(m, ek) == \E i \in 1..Len(m) : m[i].key = ek

MapIndex(m, ek) == CHOOSE i \in 1..Len(m) : m[i].key = ek

\* variant: a face is put at the front of the list of its edge
MapPushFront(m, ek, face) ==
    LET m1 == IF MapHas(m, ek) THEN m ELSE Append(m, [key |-> ek, faces |-> <<>>])
        i  == MapIndex(m1, ek)
    IN  [m1 EXCEPT ![i].faces = <<face>> \o @]

\* variant: an entry keeps the face that opened it and takes no other
MapPushKeepFirst(m, ek, face) ==
    IF MapHas(m, ek) THEN m ELSE Append(m, [key |-> ek, faces |-> <<face>>])

\* variant: every push opens a new entry
MapPushAlwaysNew(m, ek, face) == Append(m, [key |-> ek, faces |-> <<face>>])

\* if (!edgeFaces.has(ek)) edgeFaces.set(ek, []); edgeFaces.get(ek).push(face)
MapPush(m, ek, face) ==
    LET m1 == IF MapHas(m, ek) THEN m ELSE Append(m, [key |-> ek, faces |-> <<>>])
        i  == MapIndex(m1, ek)
    IN  [m1 EXCEPT ![i].faces = Append(@, face)]

BuildAdjacency ==
    /\ pc = "adjacency"
    /\ f < triangleCount
    /\ LET i0 == indices[f * 3 + 1]
           i1 == indices[f * 3 + 2]
           i2 == indices[f * 3 + 3]
       IN  edgeFaces' = MapPush(MapPush(MapPush(edgeFaces, edgeKey(i0, i1), f),
                                        edgeKey(i1, i2), f),
                                edgeKey(i2, i0), f)
    /\ IF f + 1 < triangleCount
       THEN f' = f + 1 /\ pc' = pc
       ELSE f' = f + 1 /\ pc' = "filter"
    /\ UNCHANGED <<argv, opts, gltf, positions, indices, faceNormals, e, featureEdges, stats,
                   zoneStats, usedVertices, vertexMap, outVertices, outIndices,
                   result, written>>
    /\ UNCHANGED <<dockVars, cursorVars>>


(***************************************************************************)
(* Step 3: per-zone filtering                                              *)
(***************************************************************************)
useZones == opts.zones /\ Len(ZONES) > 0

\* const zone = useZones ? findZone(mid) : null  (a position in ZONES, 0 for null)
edgeZone(mid) == IF useZones THEN findZone(mid) ELSE 0

zoneName(zone) == IF zone # 0 THEN ZONES[zone].name ELSE DefaultZoneName

\* variant: the global threshold whatever the zone
localThresholdGlobal(zone) == opts.threshold

localThreshold(zone) == IF zone # 0 THEN ZONES[zone].threshold ELSE opts.threshold

\* variant: the global minLength whatever the zone
localMinLengthGlobal(zone) == opts.minLength

localMinLength(zone) == IF zone # 0 THEN ZONES[zone].minLength ELSE opts.minLength

\* variant: the non-manifold branch is taken before the hard floor
ClassifyManifoldFirst(edgeLen, faces, zone) ==
    IF Len(faces) > 2 THEN "nonManifold"
    ELSE IF LenLess(edgeLen, localMinLength(zone)) THEN "tooShort"
    ELSE IF Len(faces) = 1 THEN (IF opts.boundary THEN "boundary" ELSE "dropped")
    ELSE IF AngleGreater(faceNormals[faces[1] + 1], faceNormals[faces[2] + 1],
                         localThreshold(zone)) THEN "sharp"
    ELSE IF LenGreater(edgeLen, opts.featureLength) THEN "long"
    ELSE "coplanar"

\* variant: no long-structural-edge criterion
ClassifyNoLong(edgeLen, faces, zone) ==
    IF LenLess(edgeLen, localMinLength(zone)) THEN "tooShort"
    ELSE IF Len(faces) = 1 THEN (IF opts.boundary THEN "boundary" ELSE "dropped")
    ELSE IF Len(faces) = 2 THEN
        IF AngleGreater(faceNormals[faces[1] + 1], faceNormals[faces[2] + 1],
                        localThreshold(zone)) THEN "sharp"
        ELSE "coplanar"
    ELSE "nonManifold"

\* variant: an edge of 3+ faces is put to the angle test of its first two faces
ClassifyAngleOnly(edgeLen, faces, zone) ==
    IF LenLess(edgeLen, localMinLength(zone)) THEN "tooShort"
    ELSE IF Len(faces) = 1 THEN (IF opts.boundary THEN "boundary" ELSE "dropped")
    ELSE IF AngleGreater(faceNormals[faces[1] + 1], faceNormals[faces[2] + 1],
                         localThreshold(zone))
         THEN (IF Len(faces) = 2 THEN "sharp" ELSE "nonManifold")
    ELSE IF LenGreater(edgeLen, opts.featureLength) THEN "long"
    ELSE "coplanar"

\* variant: boundary edges are kept whatever opts.boundary says
ClassifyBoundaryAlways(edgeLen, faces, zone) ==
    IF LenLess(edgeLen, localMinLength(zone)) THEN "tooShort"
    ELSE IF Len(faces) = 1 THEN "boundary"
    ELSE IF Len(faces) = 2 THEN
        IF AngleGreater(faceNormals[faces[1] + 1], faceNormals[faces[2] + 1],
                        localThreshold(zone)) THEN "sharp"
        ELSE IF LenGreater(edgeLen, opts.featureLength) THEN "long"
        ELSE "coplanar"
    ELSE "nonManifold"

\* variant: inside a zone no edge is long
ClassifyLongOutsideZones(edgeLen, faces, zone) ==
    IF LenLess(edgeLen, localMinLength(zone)) THEN "tooShort"
    ELSE IF Len(faces) = 1 THEN (IF opts.boundary THEN "boundary" ELSE "dropped")
    ELSE IF Len(faces) = 2 THEN
        IF AngleGreater(faceNormals[faces[1] + 1], faceNormals[faces[2] + 1],
                        localThreshold(zone)) THEN "sharp"
        ELSE IF zone = 0 /\ LenGreater(edgeLen, opts.featureLength) THEN "long"
        ELSE "coplanar"
    ELSE "nonManifold"

\* variant: the long test comes before the sharp test
ClassifyLongFirst(edgeLen, faces, zone) ==
    IF LenLess(edgeLen, localMinLength(zone)) THEN "tooShort"
    ELSE IF Len(faces) = 1 THEN (IF opts.boundary THEN "boundary" ELSE "dropped")
    ELSE IF Len(faces) = 2 THEN
        IF LenGreater(edgeLen, opts.featureLength) THEN "long"
        ELSE IF AngleGreater(faceNormals[faces[1] + 1], faceNormals[faces[2] + 1],
                             localThreshold(zone)) THEN "sharp"
        ELSE "coplanar"
    ELSE "nonManifold"

\* variant: a 1-face edge that is not kept is counted coplanar
ClassifyDroppedAsCoplanar(edgeLen, faces, zone) ==
    IF LenLess(edgeLen, localMinLength(zone)) THEN "tooShort"
    ELSE IF Len(faces) = 1 THEN (IF opts.boundary THEN "boundary" ELSE "coplanar")
    ELSE IF Len(faces) = 2 THEN
        IF AngleGreater(faceNormals[faces[1] + 1], faceNormals[faces[2] + 1],
                        localThreshold(zone)) THEN "sharp"
        ELSE IF LenGreater(edgeLen, opts.featureLength) THEN "long"
        ELSE "coplanar"
    ELSE "nonManifold"

\* the branch of the filter an edge takes, named after the counter the
\* branch increments ("dropped": the 1-face branch with opts.boundary off,
\* which increments nothing)
Classify(edgeLen, faces, zone) ==
    IF LenLess(edgeLen, localMinLength(zone)) THEN "tooShort"
    ELSE IF Len(faces) = 1 THEN (IF opts.boundary THEN "boundary" ELSE "dropped")
    ELSE IF Len(faces) = 2 THEN
        IF AngleGreater(faceNormals[faces[1] + 1], faceNormals[faces[2] + 1],
                        localThreshold(zone)) THEN "sharp"
        ELSE IF LenGreater(edgeLen, opts.featureLength) THEN "long"
        ELSE "coplanar"
    ELSE "nonManifold"

\* variant: the long branch counts its edge and does not push it
KeptWithoutLong == {"boundary", "sharp", "nonManifold"}

\* variant: the coplanar branch pushes its edge too
KeptWithCoplanar == {"boundary", "sharp", "long", "nonManifold", "coplanar"}

\* the branches that push the edge to featureEdges
Kept == {"boundary", "sharp", "long", "nonManifold"}

\* const [aStr, bStr] = ek.split("_"); a = parseInt(aStr), b = parseInt(bStr)
edgeEnds(ek) == <<parseInt(split(ek)[1]), parseInt(split(ek)[2])>>

FilterEdge ==
    /\ pc = "filter"
    /\ e < Len(edgeFaces)
    /\ LET ek      == edgeFaces[e + 1].key
           faces   == edgeFaces[e + 1].faces
           a       == edgeEnds(ek)[1]
           b       == edgeEnds(ek)[2]
           va      == getVertex(a)
           vb      == getVertex(b)
           edgeLen == dist(va, vb)
           mid     == midpoint(va, vb)
           zone    == edgeZone(mid)
           branch  == Classify(edgeLen, faces, zone)
       IN  /\ featureEdges' = IF branch \in Kept THEN Append(featureEdges, <<a, b>>)
                                                 ELSE featureEdges
           /\ stats' = IF branch = "dropped" THEN stats
                       ELSE [stats EXCEPT ![branch] = @ + 1]
           /\ zoneStats' = IF branch \in {"sharp", "tooShort", "coplanar"}
                           THEN [zoneStats EXCEPT ![zoneName(zone)][branch] = @ + 1]
                           ELSE zoneStats
    /\ e' = e + 1
    /\ pc' = IF e + 1 < Len(edgeFaces) THEN pc ELSE "compact"
    /\ UNCHANGED <<argv, opts, gltf, positions, indices, f, faceNormals, edgeFaces,
                   usedVertices, vertexMap, outVertices, outIndices, result, written>>
    /\ UNCHANGED <<dockVars, cursorVars>>

(***************************************************************************)
(* Step 4: compact output                                                  *)
(***************************************************************************)
SetHas(set, v) == \E i \in 1..Len(set) : set[i] = v

\* Set.prototype.add: a Set keeps its elements in insertion order
SetAdd(set, v) == IF SetHas(set, v) THEN set ELSE Append(set, v)

\* variant: the second endpoint of each edge is added before the first
RECURSIVE AddEndsSecondFirst(_, _, _)
AddEndsSecondFirst(set, edges, i) ==
    IF i > Len(edges) THEN set
    ELSE AddEndsSecondFirst(SetAdd(SetAdd(set, edges[i][2]), edges[i][1]), edges, i + 1)

\* for (const [a, b] of featureEdges) { usedVertices.add(a); usedVertices.add(b); }
RECURSIVE AddEnds(_, _, _)
AddEnds(set, edges, i) ==
    IF i > Len(edges) THEN set
    ELSE AddEnds(SetAdd(SetAdd(set, edges[i][1]), edges[i][2]), edges, i + 1)

CollectUsedVertices ==
    /\ pc = "compact"
    /\ usedVertices' = AddEnds(<<>>, featureEdges, 1)
    /\ pc' = "remap"
    /\ UNCHANGED <<argv, opts, gltf, positions, indices, f, faceNormals, edgeFaces, e,
                   featureEdges, stats, zoneStats, vertexMap, outVertices,
                   outIndices, result, written>>
    /\ UNCHANGED <<dockVars, cursorVars>>

\* variant: no renumbering, every vertex keeps its source index
MakeVertexMapIdentity(set) == [v \in {set[i] : i \in 1..Len(set)} |-> v]

\* for (const v of usedVertices) vertexMap.set(v, idx++)
MakeVertexMap(set) ==
    [v \in {set[i] : i \in 1..Len(set)} |-> (CHOOSE i \in 1..Len(set) : set[i] = v) - 1]

\* outVertices.push(pos[0], pos[1], pos[2]) for every used vertex, in Set order
RECURSIVE PushPositions(_, _, _)
PushPositions(out, set, i) ==
    IF i > Len(set) THEN out
    ELSE PushPositions(out \o getVertex(set[i]), set, i + 1)

BuildVertexMap ==
    /\ pc = "remap"
    /\ vertexMap' = MakeVertexMap(usedVertices)
    /\ outVertices' = PushPositions(<<>>, usedVertices, 1)
    /\ pc' = "indices"
    /\ UNCHANGED <<argv, opts, gltf, positions, indices, f, faceNormals, edgeFaces, e,
                   featureEdges, stats, zoneStats, usedVertices, outIndices,
                   result, written>>
    /\ UNCHANGED <<dockVars, cursorVars>>

\* outIndices.push(vertexMap.get(a), vertexMap.get(b)) for every kept edge
RECURSIVE PushIndices(_, _, _, _)
PushIndices(out, map, edges, i) ==
    IF i > Len(edges) THEN out
    ELSE PushIndices(out \o <<map[edges[i][1]], map[edges[i][2]]>>, map, edges, i + 1)

BuildOutIndices ==
    /\ pc = "indices"
    /\ outIndices' = PushIndices(<<>>, vertexMap, featureEdges, 1)
    /\ pc' = "return"
    /\ UNCHANGED <<argv, opts, gltf, positions, indices, f, faceNormals, edgeFaces, e,
                   featureEdges, stats, zoneStats, usedVertices, vertexMap,
                   outVertices, result, written>>
    /\ UNCHANGED <<dockVars, cursorVars>>

ReturnResult ==
    /\ pc = "return"
    /\ result' = << [vertices |-> outVertices,
                     indices  |-> outIndices,
                     meta     |-> [sourceVertices |-> vertexCount,
                                   sourceTriangles |-> triangleCount,
                                   sourceEdges |-> Len(edgeFaces),
                                   featureEdges |-> Len(featureEdges),
                                   sharp |-> stats.sharp,
                                   long |-> stats.long,
                                   boundary |-> stats.boundary,
                                   tooShort |-> stats.tooShort,
                                   coplanar |-> stats.coplanar,
                                   nonManifold |-> stats.nonManifold,
                                   threshold |-> opts.threshold,
                                   minLength |-> opts.minLength,
                                   featureLength |-> opts.featureLength,
                                   zonesEnabled |-> useZones]] >>
    /\ pc' = "write"
    /\ UNCHANGED <<argv, opts, gltf, positions, indices, f, faceNormals, edgeFaces, e,
                   featureEdges, stats, zoneStats, usedVertices, vertexMap,
                   outVertices, outIndices, written>>
    /\ UNCHANGED <<dockVars, cursorVars>>

(***************************************************************************)
(* Run                                                                     *)
(***************************************************************************)
\* the value JSON.parse reads back for null
Null == -999999998

\* JSON.stringify(result): an array of numbers and a finite number are
\* written as they are, NaN is written as null
stringify(doc) ==
    [doc EXCEPT !.meta.threshold = IF @ = NaN THEN Null ELSE @,
                !.meta.minLength = IF @ = NaN THEN Null ELSE @,
                !.meta.featureLength = IF @ = NaN THEN Null ELSE @]

WriteOutput ==
    /\ pc = "write"
    /\ written' = <<stringify(result[1])>>
    /\ pc' = "done"
    /\ UNCHANGED <<argv, opts, gltf, positions, indices, f, faceNormals, edgeFaces, e,
                   featureEdges, stats, zoneStats, usedVertices, vertexMap,
                   outVertices, outIndices, result>>
    /\ UNCHANGED <<dockVars, cursorVars>>

Next ==
    \/ ReadArgs
    \/ loadGLTF
    \/ ComputeFaceNormal
    \/ BuildAdjacency
    \/ FilterEdge
    \/ CollectUsedVertices
    \/ BuildVertexMap
    \/ BuildOutIndices
    \/ ReturnResult
    \/ WriteOutput

Spec == Init /\ [][Next]_vars

(***************************************************************************)
(* Properties.  The edges the filter loop has consumed are entries 1..e    *)
(* of the adjacency map; what the filter owes each of them is restated     *)
(* here from the inputs (positions, indices, options, zone table).         *)
(***************************************************************************)
ContainingZones(p) == {i \in 1..Len(ZONES) : InZone(p, ZONES[i])}

\* entry k of the adjacency map: its endpoints, face count, length, midpoint,
\* the zone findZone gives its midpoint when zones are enabled, the minLength
\* and threshold of that zone (the global ones without a zone), the three
\* tests of the filter under those values, and whether the pair is in the
\* kept-edge list
EdgeInfo(k) ==
    LET ends  == edgeEnds(edgeFaces[k].key)
        faces == edgeFaces[k].faces
        va    == getVertex(ends[1])
        vb    == getVertex(ends[2])
        len   == dist(va, vb)
        mid   == midpoint(va, vb)
        zone  == IF opts.zones THEN findZone(mid) ELSE 0
        minL  == IF zone = 0 THEN opts.minLength ELSE ZONES[zone].minLength
        thr   == IF zone = 0 THEN opts.threshold ELSE ZONES[zone].threshold
    IN  [a |-> ends[1], b |-> ends[2], nFaces |-> Len(faces), len |-> len, mid |-> mid,
         zone |-> zone,
         name |-> IF zone = 0 THEN DefaultZoneName ELSE ZONES[zone].name,
         short |-> LenLess(len, minL),
         shortGlobal |-> LenLess(len, opts.minLength),
         long |-> LenGreater(len, opts.featureLength),
         sharp |-> Len(faces) >= 2 /\ AngleGreater(faceNormals[faces[1] + 1],
                                                   faceNormals[faces[2] + 1], thr),
         sharpGlobal |-> Len(faces) >= 2 /\ AngleGreater(faceNormals[faces[1] + 1],
                                                         faceNormals[faces[2] + 1],
                                                         opts.threshold),
         kept |-> \E i \in 1..Len(featureEdges) : featureEdges[i] = ends]

RECURSIVE EdgeInfos(_)
EdgeInfos(k) == IF k = 0 THEN <<>> ELSE Append(EdgeInfos(k - 1), EdgeInfo(k))

\* the edges the filter loop has consumed
Consumed == EdgeInfos(e)

\* C1: an edge shorter than its effective minLength is never kept and is
\* counted as tooShort, whatever its face count, its angle and featureLength
C1_HardFloor ==
    LET T == Consumed
    IN  /\ \A k \in 1..Len(T) : T[k].short => ~T[k].kept
        /\ stats.tooShort = Cardinality({k \in 1..Len(T) : T[k].short})

\* a too-short edge of 3 faces and a too-short edge of 2 faces that is sharp
\* and longer than featureLength have gone through the filter
C1_Witness ==
    LET T == Consumed
    IN  /\ \E k \in 1..Len(T) : T[k].short /\ T[k].nFaces >= 3
        /\ \E k \in 1..Len(T) : T[k].short /\ T[k].nFaces = 2 /\ T[k].sharp /\ T[k].long

\* C2: findZone returns the containing zone of lowest list position
C2_ZonePrecedence ==
    \A p \in {getVertex(v) : v \in 0..(vertexCount - 1)}
             \cup {midpoint(getVertex(edgeEnds(edgeFaces[k].key)[1]),
                            getVertex(edgeEnds(edgeFaces[k].key)[2])) :
                      k \in 1..Len(edgeFaces)} :
        \A i \in ContainingZones(p) :
            findZone(p) \in ContainingZones(p) /\ findZone(p) <= i

BoxVolume(z) == (z.xMax - z.xMin) * (z.yMax - z.yMin) * (z.zMax - z.zMin)

\* with zones enabled the filter has consumed an edge whose midpoint lies in
\* two zones of which the first is the larger box, and one where the first
\* is the smaller box
C2_Witness ==
    LET T == Consumed
    IN  /\ opts.zones
        /\ \E k \in 1..Len(T) : \E j \in ContainingZones(T[k].mid) :
              T[k].zone < j /\ BoxVolume(ZONES[T[k].zone]) > BoxVolume(ZONES[j])
        /\ \E k \in 1..Len(T) : \E j \in ContainingZones(T[k].mid) :
              T[k].zone < j /\ BoxVolume(ZONES[T[k].zone]) < BoxVolume(ZONES[j])

\* C3: every output index is in [0, vertices.length / 3) and every output
\* vertex is referenced by an output index
C3_OutputIndexValidity ==
    Len(result) > 0 =>
        LET out == result[1]
            n   == Len(out.vertices) \div 3
        IN  /\ Len(out.vertices) = 3 * n
            /\ \A j \in 1..Len(out.indices) : out.indices[j] \in 0..(n - 1)
            /\ \A v \in 0..(n - 1) : \E j \in 1..Len(out.indices) : out.indices[j] = v

\* a result with kept edges that leaves out some source vertex
C3_Witness ==
    /\ Len(result) > 0
    /\ Len(result[1].indices) > 0
    /\ Len(result[1].vertices) < Len(positions)

\* C4: a 2-face edge that passes the floor is kept exactly when its angle
\* exceeds the effective threshold or its length exceeds featureLength, and
\* is counted as coplanar otherwise
C4_TwoFaceEdges ==
    LET T == Consumed
    IN  /\ \A k \in 1..Len(T) : (~T[k].short /\ T[k].nFaces = 2) =>
                                   (T[k].kept <=> (T[k].sharp \/ T[k].long))
        /\ stats.coplanar = Cardinality({k \in 1..Len(T) :
              ~T[k].short /\ T[k].nFaces = 2 /\ ~T[k].sharp /\ ~T[k].long})

\* a 2-face edge kept for its length alone, and a 2-face edge kept for its
\* angle alone
C4_Witness ==
    LET T == Consumed
    IN  /\ \E k \in 1..Len(T) : ~T[k].short /\ T[k].nFaces = 2 /\ ~T[k].sharp
                                /\ T[k].long /\ T[k].kept
        /\ \E k \in 1..Len(T) : ~T[k].short /\ T[k].nFaces = 2 /\ T[k].sharp
                                /\ ~T[k].long /\ T[k].kept

\* C5: an edge of 3 or more faces that passes the floor is kept and counted
\* as nonManifold
C5_NonManifold ==
    LET T == Consumed
    IN  /\ \A k \in 1..Len(T) : (T[k].nFaces >= 3 /\ ~T[k].short) => T[k].kept
        /\ stats.nonManifold = Cardinality({k \in 1..Len(T) :
              T[k].nFaces >= 3 /\ ~T[k].short})

\* a kept edge of 3 faces whose first two faces are coplanar and which is not
\* longer than featureLength
C5_Witness ==
    LET T == Consumed
    IN  \E k \in 1..Len(T) : /\ T[k].nFaces >= 3 /\ ~T[k].short /\ T[k].kept
                             /\ ~T[k].sharp /\ ~T[k].long

\* C6: a 1-face edge that passes the floor is kept exactly when the boundary
\* option is on
C6_Boundary ==
    LET T == Consumed
    IN  \A k \in 1..Len(T) : (T[k].nFaces = 1 /\ ~T[k].short) =>
                                (T[k].kept <=> opts.boundary)

\* boundary inclusion is off and a 1-face edge has passed the floor
C6_Witness ==
    LET T == Consumed
    IN  /\ ~opts.boundary
        /\ \E k \in 1..Len(T) : T[k].nFaces = 1 /\ ~T[k].short /\ ~T[k].kept

\* C7: the floor and the angle test of every edge use the minLength and the
\* threshold of the zone findZone returns for its midpoint, and the global
\* ones when there is no such zone or zones are disabled: the per-zone
\* counters agree with that choice
C7_EffectiveThresholds ==
    LET T == Consumed
    IN  \A n \in ZoneNames :
            /\ zoneStats[n].tooShort =
                  Cardinality({k \in 1..Len(T) : T[k].name = n /\ T[k].short})
            /\ zoneStats[n].sharp =
                  Cardinality({k \in 1..Len(T) : T[k].name = n /\ ~T[k].short
                                                 /\ T[k].nFaces = 2 /\ T[k].sharp})

\* zones are enabled; one consumed edge is too short for its zone but not for
\* the global minLength, another lies in no zone, and a third is sharp for
\* its zone but not for the global threshold
C7_Witness ==
    LET T == Consumed
    IN  /\ opts.zones
        /\ \E k \in 1..Len(T) : T[k].zone # 0 /\ T[k].short /\ ~T[k].shortGlobal
        /\ \E k \in 1..Len(T) : T[k].zone = 0
        /\ \E k \in 1..Len(T) : /\ T[k].zone # 0 /\ ~T[k].short /\ T[k].nFaces = 2
                                /\ T[k].sharp /\ ~T[k].sharpGlobal

\* the faces the adjacency loop has gone through
FacesDone ==
    IF pc \in {"load", "normals", "aborted"} THEN 0
    ELSE IF pc = "adjacency" THEN f
    ELSE triangleCount

\* the three edges of face g as the adjacency loop takes them: i0-i1, i1-i2, i2-i0
FaceEdges(g) ==
    {<<indices[g * 3 + 1], indices[g * 3 + 2]>>,
     <<indices[g * 3 + 2], indices[g * 3 + 3]>>,
     <<indices[g * 3 + 3], indices[g * 3 + 1]>>}

\* C8: edgeKey(a, b) = edgeKey(b, a), distinct unordered pairs have distinct
\* keys (as many keys as unordered pairs), and both windings of an edge land
\* in one entry of the adjacency map
C8_EdgeKeySymmetric ==
    LET used == {indices[i] : i \in 1..Len(indices)}
    IN  /\ \A a, b \in used : edgeKey(a, b) = edgeKey(b, a)
        /\ Cardinality({edgeKey(a, b) : a, b \in used})
              = Cardinality({{a, b} : a, b \in used})
        /\ \A g \in 0..(FacesDone - 1) : \A ab \in FaceEdges(g) :
              /\ Cardinality({k \in 1..Len(edgeFaces) :
                                 edgeFaces[k].key = edgeKey(ab[2], ab[1])}) = 1
              /\ \A k \in 1..Len(edgeFaces) :
                    edgeFaces[k].key = edgeKey(ab[2], ab[1]) =>
                       \E j \in 1..Len(edgeFaces[k].faces) : edgeFaces[k].faces[j] = g

\* two faces that run through the same edge in opposite directions are both
\* in the map, in one entry
C8_Witness ==
    \E g, h \in 0..(FacesDone - 1) : \E ab \in FaceEdges(g) :
        /\ g # h
        /\ ab[1] # ab[2]
        /\ <<ab[2], ab[1]>> \in FaceEdges(h)
        /\ \E k \in 1..Len(edgeFaces) :
              {g, h} \subseteq {edgeFaces[k].faces[j] : j \in 1..Len(edgeFaces[k].faces)}

\* C9: no unordered vertex pair occurs twice among the output edges
C9_OutputDeduplicated ==
    /\ \A i, j \in 1..Len(featureEdges) :
          i # j => {featureEdges[i][1], featureEdges[i][2]}
                   # {featureEdges[j][1], featureEdges[j][2]}
    /\ Len(result) > 0 =>
          LET idx == result[1].indices
          IN  \A i, j \in 1..(Len(idx) \div 2) :
                 i # j => {idx[2 * i - 1], idx[2 * i]} # {idx[2 * j - 1], idx[2 * j]}

\* the result holds an edge that the index buffer runs through in both
\* directions, in two faces
C9_Witness ==
    /\ Len(result) > 0
    /\ \E i \in 1..Len(featureEdges) : \E g, h \in 0..(triangleCount - 1) :
          /\ g # h
          /\ <<featureEdges[i][1], featureEdges[i][2]>> \in FaceEdges(g)
          /\ <<featureEdges[i][2], featureEdges[i][1]>> \in FaceEdges(h)

\* the endpoints of the kept edges in the order the compactor walks them
KeptEnds ==
    [j \in 1..(2 * Len(featureEdges)) |->
        featureEdges[(j + 1) \div 2][IF j % 2 = 1 THEN 1 ELSE 2]]

FirstAt(ends, v) == CHOOSE j \in 1..Len(ends) : ends[j] = v /\ \A i \in 1..(j - 1) : ends[i] # v

\* the number of distinct vertices met before the first occurrence of v
Rank(ends, v) == Cardinality({ends[i] : i \in 1..(FirstAt(ends, v) - 1)})

\* C10: output indices 0, 1, 2, ... go to the referenced vertices in the
\* order of their first occurrence in the kept-edge list; output position k
\* is the source position of the vertex mapped to k; each output pair holds
\* the mapped indices of the endpoints of the kept edge
C10_FirstEncounterOrder ==
    pc \in {"return", "write", "done"} =>
        LET ends == KeptEnds
            used == {ends[j] : j \in 1..Len(ends)}
        IN  /\ Len(outIndices) = Len(ends)
            /\ \A j \in 1..Len(ends) : outIndices[j] = Rank(ends, ends[j])
            /\ Len(outVertices) = 3 * Cardinality(used)
            /\ \A v \in used : \A c \in 1..3 :
                  outVertices[3 * Rank(ends, v) + c] = positions[3 * v + c]

\* a finished run where the order of first occurrence is not the order of
\* the vertex indices and where a vertex is shared by two kept edges
C10_Witness ==
    /\ pc = "done"
    /\ LET ends == KeptEnds
           used == {ends[j] : j \in 1..Len(ends)}
       IN  /\ \E u, v \in used : u < v /\ FirstAt(ends, v) < FirstAt(ends, u)
           /\ Cardinality(used) < Len(ends)

\* the points findZone is asked about, and the vertices
Probes ==
    {getVertex(v) : v \in 0..(vertexCount - 1)}
    \cup {midpoint(getVertex(edgeEnds(edgeFaces[k].key)[1]),
                   getVertex(edgeEnds(edgeFaces[k].key)[2])) :
             k \in 1..Len(edgeFaces)}

\* p lies between the bounds of zone i on each axis, a bound included
Within(p, i) ==
    /\ ZONES[i].xMin <= p[1] /\ p[1] <= ZONES[i].xMax
    /\ ZONES[i].yMin <= p[2] /\ p[2] <= ZONES[i].yMax
    /\ ZONES[i].zMin <= p[3] /\ p[3] <= ZONES[i].zMax

\* p has a coordinate equal to a bound of zone i
OnFace(p, i) ==
    \/ p[1] = ZONES[i].xMin \/ p[1] = ZONES[i].xMax
    \/ p[2] = ZONES[i].yMin \/ p[2] = ZONES[i].yMax
    \/ p[3] = ZONES[i].zMin \/ p[3] = ZONES[i].zMax

\* C11: findZone returns a zone only when the point is inside that zone's box
\* on all three axes, a coordinate equal to a bound counting as inside, and
\* it returns null exactly when no zone's box contains the point
C11_InclusiveBounds ==
    \A p \in Probes :
        /\ findZone(p) # 0 => Within(p, findZone(p))
        /\ findZone(p) = 0 <=> ~ \E i \in 1..Len(ZONES) : Within(p, i)

\* the adjacency map holds an edge whose midpoint is on a face of the only
\* box that contains it and is given that zone, and an edge whose midpoint
\* is given no zone
C11_Witness ==
    /\ \E p \in Probes : \E i \in 1..Len(ZONES) :
          /\ Within(p, i) /\ OnFace(p, i)
          /\ \A j \in 1..Len(ZONES) : Within(p, j) => j = i
          /\ findZone(p) = i
    /\ \E p \in Probes : findZone(p) = 0
    /\ Len(edgeFaces) > 0

\* cs is a decimal numeral: an optional sign, digits with at most one
\* decimal point among them, a digit at least
Numeral(cs) ==
    LET body == IF Len(cs) > 0 /\ (cs[1] = "-" \/ cs[1] = "+") THEN Tail(cs) ELSE cs
    IN  /\ \E i \in 1..Len(body) : IsDigit(body[i])
        /\ \A i \in 1..Len(body) : IsDigit(body[i]) \/ body[i] = "."
        /\ Cardinality({i \in 1..Len(body) : body[i] = "."}) <= 1

\* the command line gives --threshold, --min-length or --feature-length a
\* text that is no number, or no text at all
InvalidNumber(args) ==
    \E i \in 1..Len(args) :
        /\ args[i] \in {"--threshold", "--min-length", "--feature-length"}
        /\ i = Len(args) \/ ~Numeral(Chars(args[i + 1]))

\* C13: a command line with an invalid numeric argument makes the run fail
\* before any extraction: the script does not get past parseArgs other than
\* by an error, and no option holds NaN
C13_FailFast ==
    InvalidNumber(argv) =>
        /\ pc \in {"args", "aborted"}
        /\ opts.threshold # NaN /\ opts.minLength # NaN /\ opts.featureLength # NaN
        /\ e = 0

\* C14: once loadGLTF has run on a file with an index accessor, a component
\* type other than 5123 and 5125 has ended the run with the error and no
\* index read; 5123 has read each index from 2 bytes and 5125 from 4 bytes
\* of the buffer, lowest byte first
C14_IndexComponentType ==
    (pc \notin {"args", "load"} /\ Len(gltf.accessors) >= 2) =>
        LET ct == gltf.accessors[2].componentType
            n  == gltf.accessors[2].count
            b  == gltf.indexBytes
        IN  /\ ct \notin {5123, 5125} => pc = "aborted" /\ indices = <<>>
            /\ (ct = 5123 /\ Len(b) >= 2 * n) =>
                  /\ pc # "aborted"
                  /\ indices = [i \in 1..n |-> b[2 * i - 1] + 256 * b[2 * i]]
            /\ (ct = 5125 /\ Len(b) >= 4 * n) =>
                  /\ pc # "aborted"
                  /\ indices = [i \in 1..n |->
                                   b[4 * i - 3] + 256 * b[4 * i - 2]
                                   + 65536 * b[4 * i - 1] + 16777216 * b[4 * i]]

\* the parser has refused a file whose indices are unsigned bytes (5121)
C14_Witness ==
    /\ pc = "aborted"
    /\ Len(gltf.accessors) >= 2
    /\ gltf.accessors[2].componentType = 5121
    /\ gltf.accessors[2].count > 0

\* the file cannot be loaded: it has no index accessor, its index component
\* type is not one of the two supported, or its buffer is shorter than the
\* indices it declares
Unloadable ==
    \/ Len(gltf.accessors) < 2
    \/ gltf.accessors[2].componentType \notin {5123, 5125}
    \/ Len(gltf.indexBytes)
          < (IF gltf.accessors[2].componentType = 5123 THEN 2 ELSE 4)
            * gltf.accessors[2].count

Categories == {"sharp", "long", "boundary", "nonManifold", "tooShort", "coplanar"}

\* the category the filter owes the consumed edge t, "none" for the edge of
\* one face that is passed over when boundary edges are disabled
Category(t) ==
    IF t.short THEN "tooShort"
    ELSE IF t.nFaces = 1 THEN (IF opts.boundary THEN "boundary" ELSE "none")
    ELSE IF t.nFaces = 2
         THEN (IF t.sharp THEN "sharp" ELSE IF t.long THEN "long" ELSE "coplanar")
    ELSE "nonManifold"

\* the count the per-zone statistics hold of category c in zone n, 0 when
\* they hold no such counter
ZoneCount(n, c) == IF c \in DOMAIN zoneStats[n] THEN zoneStats[n][c] ELSE 0

Sides(g) ==
    {{indices[g * 3 + 1], indices[g * 3 + 2]},
     {indices[g * 3 + 2], indices[g * 3 + 3]},
     {indices[g * 3 + 3], indices[g * 3 + 1]}}

\* the loaded mesh is closed and manifold: every face has three sides of two
\* vertices each, and every side of a face is a side of exactly two faces
ClosedManifold ==
    /\ triangleCount > 0
    /\ \A g \in 0..(triangleCount - 1) :
          /\ Cardinality(Sides(g)) = 3
          /\ \A s \in Sides(g) :
                /\ Cardinality(s) = 2
                /\ Cardinality({h \in 0..(triangleCount - 1) : s \in Sides(h)}) = 2

\* C17: once the adjacency loop has gone through a closed manifold mesh,
\* every entry of the adjacency map has exactly 2 face ids and there are 3
\* entries to every 2 faces; for the cube of 8 vertices and 12 triangles that
\* is 18 entries
C17_ClosedManifold ==
    (ClosedManifold /\ FacesDone = triangleCount) =>
        /\ \A k \in 1..Len(edgeFaces) : Len(edgeFaces[k].faces) = 2
        /\ 2 * Len(edgeFaces) = 3 * triangleCount
        /\ (vertexCount = 8 /\ triangleCount = 12) => Len(edgeFaces) = 18

\* the adjacency loop has gone through the 12 faces of the cube
C17_Witness ==
    /\ ClosedManifold
    /\ vertexCount = 8 /\ triangleCount = 12
    /\ pc = "filter" /\ e = 0
    /\ Len(edgeFaces) = 18

\* the normals of the first two faces of entry k of the adjacency map
Normal1(k) == faceNormals[edgeFaces[k].faces[1] + 1]
Normal2(k) == faceNormals[edgeFaces[k].faces[2] + 1]

\* the two normals are those of faces with an area, and are equal
Identical(k) == Normal1(k) # <<0, 0, 0>> /\ Normal1(k) = Normal2(k)

\* the two normals are those of faces with an area, and are opposite
Antiparallel(k) ==
    /\ Normal1(k) # <<0, 0, 0>>
    /\ Normal2(k) = <<0 - Normal1(k)[1], 0 - Normal1(k)[2], 0 - Normal1(k)[3]>>

\* the angle threshold in force for the consumed edge t
EffectiveThreshold(t) == IF t.zone = 0 THEN opts.threshold ELSE ZONES[t.zone].threshold

\* C18 as stated: on a command line whose numbers are numbers, a consumed
\* edge of 2 faces that passes the floor is kept exactly when it is longer
\* than featureLength if its normals are identical, and is kept if they are
\* antiparallel
C18_AsStated ==
    LET T == Consumed
    IN  ~InvalidNumber(argv) =>
        \A k \in 1..Len(T) :
            (T[k].nFaces = 2 /\ ~T[k].short) =>
                /\ Identical(k) => (T[k].kept <=> T[k].long)
                /\ Antiparallel(k) => T[k].kept

\* C18, amended: the same under an effective threshold above 0 and below 180
\* degrees, with the identical pair counted coplanar when it is dropped and
\* the antiparallel pair counted sharp
C18_DihedralBounds ==
    LET T == Consumed
        valid(k) == /\ T[k].nFaces = 2 /\ ~T[k].short
                    /\ EffectiveThreshold(T[k]) # NaN
                    /\ EffectiveThreshold(T[k]) > 0
                    /\ EffectiveThreshold(T[k]) < 18000
    IN  /\ \A k \in 1..Len(T) :
              valid(k) =>
                  /\ Identical(k) => (T[k].kept <=> T[k].long)
                  /\ Antiparallel(k) => T[k].kept
        /\ stats.coplanar >= Cardinality({k \in 1..Len(T) :
                                             valid(k) /\ Identical(k) /\ ~T[k].long})
        /\ stats.sharp >= Cardinality({k \in 1..Len(T) : valid(k) /\ Antiparallel(k)})

\* under a threshold above 0 and below 180 degrees the filter has kept an
\* edge of antiparallel normals that is not longer than featureLength and
\* dropped an edge of identical normals
C18_Witness ==
    LET T == Consumed
    IN  /\ opts.threshold # NaN /\ opts.threshold > 0 /\ opts.threshold < 18000
        /\ \E k \in 1..Len(T) :
              /\ T[k].nFaces = 2 /\ ~T[k].short /\ T[k].zone = 0
              /\ Antiparallel(k) /\ ~T[k].long /\ T[k].kept
        /\ \E k \in 1..Len(T) :
              /\ T[k].nFaces = 2 /\ ~T[k].short /\ T[k].zone = 0
              /\ Identical(k) /\ ~T[k].long /\ ~T[k].kept

\* the filter loop has gone through the whole adjacency map
FilterDone == pc \in {"compact", "remap", "indices", "return", "write", "done"}

\* the run is the unit-square scenario: the square split by its diagonal 0-2,
\* threshold 10 degrees, minLength 0, featureLength 1000
SquareScenario ==
    /\ gltf = SquareFile
    /\ triangleCount = 2
    /\ opts.threshold = 1000 /\ opts.minLength = 0 /\ opts.featureLength = 10000

\* the kept edges as sets of two vertices
KeptSides == {{featureEdges[i][1], featureEdges[i][2]} : i \in 1..Len(featureEdges)}

\* C19: in the unit-square scenario the diagonal is counted coplanar and is
\* not kept; the four outer edges are all kept, as boundary edges, when
\* boundary edges are enabled, and none is kept when they are disabled
C19_UnitSquare ==
    (SquareScenario /\ FilterDone) =>
        /\ {0, 2} \notin KeptSides
        /\ stats.coplanar = 1 /\ stats.sharp = 0 /\ stats.long = 0 /\ stats.tooShort = 0
        /\ opts.boundary =>
              /\ KeptSides = {{0, 1}, {1, 2}, {2, 3}, {0, 3}}
              /\ Len(featureEdges) = 4 /\ stats.boundary = 4
        /\ ~opts.boundary => featureEdges = <<>> /\ stats.boundary = 0

\* the scenario has run to its end with boundary edges enabled and the four
\* outer edges are in the written document
C19_Witness ==
    /\ SquareScenario /\ pc = "done" /\ opts.boundary
    /\ Len(written) = 1 /\ Len(written[1].indices) = 8
    /\ written[1].meta.coplanar = 1

\* the two faces of entry k have an area and meet at 90 degrees
Perpendicular(k) ==
    /\ Normal1(k) # <<0, 0, 0>> /\ Normal2(k) # <<0, 0, 0>>
    /\ dot(Normal1(k), Normal2(k)) = 0

\* the position in ZONES of "Left Wing", whose threshold is 1 degree
LeftWing == CHOOSE i \in 1..Len(ZONES) : ZONES[i].name = "Left Wing"

Degenerate(g) ==
    LET v0 == getVertex(indices[g * 3 + 1])
        v1 == getVertex(indices[g * 3 + 2])
        v2 == getVertex(indices[g * 3 + 3])
        u  == <<v1[1] - v0[1], v1[2] - v0[2], v1[3] - v0[3]>>
        w  == <<v2[1] - v0[1], v2[2] - v0[2], v2[3] - v0[3]>>
    IN  /\ u[2] * w[3] = u[3] * w[2]
        /\ u[3] * w[1] = u[1] * w[3]
        /\ u[1] * w[2] = u[2] * w[1]

\* entry k of the adjacency map lists a face without area
OnDegenerate(k) ==
    \E i \in 1..Len(edgeFaces[k].faces) : Degenerate(edgeFaces[k].faces[i])

\* C21: a face without area has the zero vector for its normal, a run on a
\* loaded mesh with such a face raises no error, and every edge of such a
\* face that the filter has consumed is
\* kept exactly when it falls into a kept category (sharp, long, boundary,
\* non-manifold); with a zero normal on either side the angle is 90 degrees
C21_DegenerateTriangle ==
    LET T == Consumed
    IN  (\E g \in 0..(triangleCount - 1) : Degenerate(g)) =>
        /\ \A g \in 0..(Len(faceNormals) - 1) :
              Degenerate(g) <=> faceNormals[g + 1] = <<0, 0, 0>>
        /\ pc # "aborted"
        /\ \A k \in 1..Len(T) :
              OnDegenerate(k) =>
                  /\ Category(T[k]) \in Categories \cup {"none"}
                  /\ T[k].kept <=> Category(T[k]) \in {"sharp", "long", "boundary", "nonManifold"}
                  /\ (T[k].nFaces = 2 /\ EffectiveThreshold(T[k]) # NaN) =>
                        (T[k].sharp <=> EffectiveThreshold(T[k]) < 9000)

\* a run on a mesh with a face without area has ended and written its
\* document; the edge of that face between its two distinct vertices was
\* sharp and is kept
C21_Witness ==
    LET T == Consumed
    IN  /\ pc = "done" /\ Len(written) = 1
        /\ \E g \in 0..(triangleCount - 1) : Degenerate(g) /\ faceNormals[g + 1] = <<0, 0, 0>>
        /\ \E k \in 1..Len(T) :
              OnDegenerate(k) /\ T[k].nFaces = 2 /\ ~T[k].short /\ T[k].sharp /\ T[k].kept

\* the fields of the metadata that hold a number
MetaNumbers ==
    {"sourceVertices", "sourceTriangles", "sourceEdges", "featureEdges",
     "sharp", "long", "boundary", "tooShort", "coplanar", "nonManifold",
     "threshold", "minLength", "featureLength"}

\* the source counts, the six category counts and the three numeric options
\* in the metadata of the returned value, and the zone toggle
MetaEchoes ==
    LET meta == result[1].meta
    IN  /\ meta.sourceVertices = vertexCount
        /\ meta.sourceTriangles = triangleCount
        /\ meta.sourceEdges = Len(edgeFaces)
        /\ \A c \in Categories : meta[c] = stats[c]
        /\ meta.threshold = opts.threshold
        /\ meta.minLength = opts.minLength
        /\ meta.featureLength = opts.featureLength
        /\ meta.zonesEnabled = opts.zones

\* C22: the metadata of the returned value holds the source counts, the six
\* category counts, the global threshold, minLength and featureLength, the
\* zone toggle, and the boundary toggle in a field of its own
C22_MetaEchoesConfig ==
    result # <<>> =>
        /\ MetaEchoes
        /\ \E fld \in DOMAIN result[1].meta \ (MetaNumbers \cup {"zonesEnabled"}) :
              result[1].meta[fld] = opts.boundary

\* the consumed edge t has 2 faces, passes the floor of its zone and has an
\* angle that does not exceed its effective threshold
FlatPair(t) == t.nFaces = 2 /\ ~t.short /\ ~t.sharp

\* C23: two consumed edges of 2 faces and equal length that pass their floors
\* and are not sharp under their own thresholds are both kept or both
\* dropped, whatever their zones, and are kept exactly when their length
\* exceeds the global featureLength
C23_LongIsGlobal ==
    LET T == Consumed
        flat == {k \in 1..Len(T) : FlatPair(T[k])}
    IN  /\ \A k \in flat : \A j \in flat :
              T[k].len = T[j].len => (T[k].kept <=> T[j].kept)
        /\ \A k \in flat :
              T[k].kept <=> /\ opts.featureLength # NaN
                            /\ \/ opts.featureLength < 0
                               \/ T[k].len > opts.featureLength * opts.featureLength

\* the filter has kept two such edges of equal length, one inside a zone and
\* one in no zone, with zones enabled
C23_Witness ==
    LET T == Consumed
    IN  /\ opts.zones
        /\ \E k \in 1..Len(T) : \E j \in 1..Len(T) :
              /\ FlatPair(T[k]) /\ FlatPair(T[j])
              /\ T[k].zone # 0 /\ T[j].zone = 0
              /\ T[k].len = T[j].len
              /\ T[k].kept /\ T[j].kept

\* the minLength in force for the consumed edge t
EffectiveMinLength(t) == IF t.zone = 0 THEN opts.minLength ELSE ZONES[t.zone].minLength

\* the length of t is the number m (not negative)
LengthIs(t, m) == m # NaN /\ m >= 0 /\ t.len = m * m

\* the length of t is below, above the number m
LengthBelow(t, m) == m # NaN /\ m > 0 /\ t.len < m * m
LengthAbove(t, m) == m # NaN /\ (m < 0 \/ t.len > m * m)

\* the angle between the normals of the two faces of entry k is the
\* threshold in force: 0, 90 or 180 degrees
AngleIsThreshold(k, t) ==
    \/ EffectiveThreshold(t) = 0 /\ Identical(k)
    \/ EffectiveThreshold(t) = 9000
          /\ (Perpendicular(k) \/ Normal1(k) = <<0, 0, 0>> \/ Normal2(k) = <<0, 0, 0>>)
    \/ EffectiveThreshold(t) = 18000 /\ Antiparallel(k)

\* C24: the too-short counter counts the consumed edges whose length is
\* below their effective minLength and no edge whose length equals it; a
\* consumed 2-face edge that passes the floor and whose angle equals its
\* effective threshold is kept only if longer than featureLength, and one
\* that is not sharp and whose length equals featureLength is not kept
C24_StrictComparisons ==
    LET T == Consumed
    IN  /\ stats.tooShort
              = Cardinality({k \in 1..Len(T) : LengthBelow(T[k], EffectiveMinLength(T[k]))})
        /\ \A k \in 1..Len(T) :
              (T[k].nFaces = 2 /\ ~LengthBelow(T[k], EffectiveMinLength(T[k]))) =>
                  /\ AngleIsThreshold(k, T[k]) =>
                        (T[k].kept <=> LengthAbove(T[k], opts.featureLength))
                  /\ (~T[k].sharp /\ LengthIs(T[k], opts.featureLength)) => ~T[k].kept

\* the filter has consumed an edge of 2 faces whose length equals both
\* minLength and featureLength and whose angle equals the threshold: it is
\* not counted too short and it is not kept
C24_Witness ==
    LET T == Consumed
    IN  \E k \in 1..Len(T) :
            /\ T[k].nFaces = 2
            /\ LengthIs(T[k], EffectiveMinLength(T[k]))
            /\ LengthIs(T[k], opts.featureLength)
            /\ T[k].len > 0
            /\ AngleIsThreshold(k, T[k])
            /\ ~T[k].kept
            /\ stats.tooShort = 0 /\ stats.coplanar >= 1

\* the face ids held by the adjacency map, each with the entry and the
\* position that holds it
FaceSlots ==
    {s \in (1..Len(edgeFaces)) \X (1..(3 * triangleCount)) :
        s[2] <= Len(edgeFaces[s[1]].faces)}

\* C25: the face list of every entry of the adjacency map is in
\* non-decreasing order of face id, the entries are in the order in which
\* their first faces were visited, every face the loop has gone through is
\* listed under each of its three canonical edges, and the lists hold 3 face
\* ids for every face gone through
C25_DiscoveryOrder ==
    /\ \A k \in 1..Len(edgeFaces) :
          \A i \in 1..(Len(edgeFaces[k].faces) - 1) :
              edgeFaces[k].faces[i] <= edgeFaces[k].faces[i + 1]
    /\ \A k \in 1..(Len(edgeFaces) - 1) :
          edgeFaces[k].faces[1] <= edgeFaces[k + 1].faces[1]
    /\ \A g \in 0..(FacesDone - 1) : \A s \in Sides(g) :
          \E k \in 1..Len(edgeFaces) :
              /\ {edgeEnds(edgeFaces[k].key)[1], edgeEnds(edgeFaces[k].key)[2]} = s
              /\ \E i \in 1..Len(edgeFaces[k].faces) : edgeFaces[k].faces[i] = g
    /\ Cardinality(FaceSlots) = 3 * FacesDone

\* the loop has gone through all faces of a mesh of 3 faces at least, and an
\* entry of the map holds two different faces, the lower id first
C25_Witness ==
    /\ pc = "filter" /\ e = 0 /\ triangleCount >= 3
    /\ \E k \in 1..Len(edgeFaces) :
          /\ Len(edgeFaces[k].faces) >= 2
          /\ edgeFaces[k].faces[1] < edgeFaces[k].faces[2]
    /\ Cardinality(FaceSlots) = 3 * triangleCount

\* C26: the number of kept edges is sharp + long + boundary + nonManifold at
\* every step of the filter, and the returned value has two indices per kept
\* edge and reports that number as featureEdges
C26_KeptCount ==
    /\ Len(featureEdges) = stats.sharp + stats.long + stats.boundary + stats.nonManifold
    /\ pc \in {"return", "write", "done"} => Len(outIndices) = 2 * Len(featureEdges)
    /\ result # <<>> =>
          /\ Len(result[1].indices) = 2 * Len(featureEdges)
          /\ result[1].meta.featureEdges = Len(featureEdges)
          /\ result[1].meta.featureEdges
                = result[1].meta.sharp + result[1].meta.long
                  + result[1].meta.boundary + result[1].meta.nonManifold

\* a value has been returned whose kept edges come from three of the four
\* kept categories
C26_Witness ==
    /\ result # <<>>
    /\ result[1].meta.featureEdges >= 3
    /\ Cardinality({c \in {"sharp", "long", "boundary", "nonManifold"} :
                       result[1].meta[c] > 0}) >= 3

\* the consumed 1-face edges that pass the floor while boundary edges are
\* disabled
PassedOver(T) ==
    {k \in 1..Len(T) : T[k].nFaces = 1 /\ ~T[k].short /\ ~opts.boundary}

SixCounters ==
    stats.sharp + stats.long + stats.boundary + stats.nonManifold
    + stats.tooShort + stats.coplanar

\* C27 as stated: the six counters sum to the number of edges the filter has
\* consumed, and to sourceEdges in the returned metadata
C27_AsStated ==
    /\ SixCounters = e
    /\ result # <<>> =>
          result[1].meta.sourceEdges
             = result[1].meta.sharp + result[1].meta.long + result[1].meta.boundary
               + result[1].meta.nonManifold + result[1].meta.tooShort
               + result[1].meta.coplanar

\* C27, amended: the six counters sum to the number of consumed edges less
\* the 1-face edges that pass the floor while boundary edges are disabled;
\* with boundary edges enabled they sum to the number of consumed edges, and
\* to sourceEdges in the returned metadata
C27_CountersSum ==
    LET T == Consumed
    IN  /\ SixCounters = e - Cardinality(PassedOver(T))
        /\ opts.boundary => SixCounters = e
        /\ result # <<>> =>
              /\ e = result[1].meta.sourceEdges
              /\ opts.boundary =>
                    result[1].meta.sourceEdges
                       = result[1].meta.sharp + result[1].meta.long
                         + result[1].meta.boundary + result[1].meta.nonManifold
                         + result[1].meta.tooShort + result[1].meta.coplanar

\* a value has been returned by a run with boundary edges disabled in which
\* the filter passed over 1-face edges: the counters sum to less than
\* sourceEdges
C27_Witness ==
    LET T == Consumed
    IN  /\ result # <<>> /\ ~opts.boundary
        /\ Cardinality(PassedOver(T)) >= 2
        /\ SixCounters > 0
        /\ SixCounters = result[1].meta.sourceEdges - Cardinality(PassedOver(T))

\* C28: a consumed 2-face edge that passes the floor, is sharp and is longer
\* than featureLength is in the kept list exactly once; the sharp counter
\* counts the sharp 2-face edges, the long ones among them included, and the
\* long counter counts the 2-face edges that are long and not sharp
C28_SharpBeforeLong ==
    LET T == Consumed
        two == {k \in 1..Len(T) : T[k].nFaces = 2 /\ ~T[k].short}
    IN  /\ \A k \in two :
              (T[k].sharp /\ T[k].long) =>
                  Cardinality({i \in 1..Len(featureEdges) :
                                  featureEdges[i] = <<T[k].a, T[k].b>>}) = 1
        /\ stats.sharp = Cardinality({k \in two : T[k].sharp})
        /\ stats.long = Cardinality({k \in two : ~T[k].sharp /\ T[k].long})
        /\ Len(featureEdges) >= stats.sharp + stats.long

\* the filter has consumed a 2-face edge that is both sharp and long, with
\* the long counter still at 0
C28_Witness ==
    LET T == Consumed
    IN  /\ \E k \in 1..Len(T) :
              T[k].nFaces = 2 /\ ~T[k].short /\ T[k].sharp /\ T[k].long /\ T[k].kept
        /\ stats.long = 0 /\ stats.sharp >= 1

(***************************************************************************)
(* FloatingDock (src/components/FloatingDock.tsx).  The page is a column   *)
(* of four sections; the window scrolls over it.                           *)
(***************************************************************************)
MaxScrollY == 84

scrollThreshold == 80

\* window.innerHeight and the offsetTop of the three sections with an id
Page == [innerHeight |-> 40, about |-> 30, works |-> 60, contact |-> 90]

\* the script has not been started: its variables at rest
ScriptIdle ==
    /\ argv = <<>>
    /\ opts = DefaultOpts
    /\ gltf = NoIndexFile
    /\ pc = "idle"
    /\ positions = <<>>
    /\ indices = <<>>
    /\ f = 0
    /\ faceNormals = <<>>
    /\ edgeFaces = <<>>
    /\ e = 0
    /\ featureEdges = <<>>
    /\ stats = ZeroStats
    /\ zoneStats = ZeroZoneStats
    /\ usedVertices = <<>>
    /\ vertexMap = <<>>
    /\ outVertices = <<>>
    /\ outIndices = <<>>
    /\ result = <<>>
    /\ written = <<>>

shouldBeExpanded == ~isModalOpen /\ (isExpanded \/ isHovering)

\* Active Section Tracking
sectionAt(y) ==
    LET viewportMiddle == y + Page.innerHeight \div 2
    IN  IF viewportMiddle >= Page.contact THEN "contact"
        ELSE IF viewportMiddle >= Page.works THEN "works"
        ELSE IF viewportMiddle >= Page.about THEN "about"
        ELSE "hero"

\* variant: the scroll handler without the manual-open branch
handleScrollAutoOnly(y) ==
    /\ lastScrollY' = y
    /\ isExpanded' = (y > scrollThreshold)
    /\ activeSection' = sectionAt(y)
    /\ dockEvent' = "scroll"
    /\ UNCHANGED <<isManuallyOpenRef, isHovering, isModalOpen>>

\* a scroll event with window.scrollY = y
handleScroll(y) ==
    LET scrollingUp == y < lastScrollY
    IN  /\ lastScrollY' = y
        /\ IF isManuallyOpenRef
           THEN IF y = 0 /\ scrollingUp
                THEN isManuallyOpenRef' = FALSE /\ isExpanded' = FALSE
                ELSE UNCHANGED <<isManuallyOpenRef, isExpanded>>
           ELSE isExpanded' = (y > scrollThreshold) /\ UNCHANGED isManuallyOpenRef
        /\ activeSection' = sectionAt(y)
        /\ dockEvent' = "scroll"
        /\ UNCHANGED <<isHovering, isModalOpen>>

Scroll ==
    /\ \E y \in 0..MaxScrollY : handleScroll(y)
    /\ UNCHANGED <<vars, cursorVars>>

\* onClick is bound to the container only while the dock is drawn collapsed
handleDotClick ==
    /\ ~shouldBeExpanded
    /\ isManuallyOpenRef' = TRUE
    /\ isExpanded' = TRUE
    /\ dockEvent' = "click"
    /\ UNCHANGED <<isHovering, activeSection, isModalOpen, lastScrollY>>
    /\ UNCHANGED <<vars, cursorVars>>

DockMouseEnter ==
    /\ ~isHovering
    /\ isHovering' = TRUE
    /\ dockEvent' = "mouseenter"
    /\ UNCHANGED <<isExpanded, activeSection, isModalOpen, isManuallyOpenRef, lastScrollY>>
    /\ UNCHANGED <<vars, cursorVars>>

DockMouseLeave ==
    /\ isHovering
    /\ isHovering' = FALSE
    /\ dockEvent' = "mouseleave"
    /\ UNCHANGED <<isExpanded, activeSection, isModalOpen, isManuallyOpenRef, lastScrollY>>
    /\ UNCHANGED <<vars, cursorVars>>

\* the MutationObserver on the body's data-modal-open attribute
checkModalState ==
    /\ isModalOpen' = ~isModalOpen
    /\ dockEvent' = "modal"
    /\ UNCHANGED <<isExpanded, isHovering, activeSection, isManuallyOpenRef, lastScrollY>>
    /\ UNCHANGED <<vars, cursorVars>>

DockInit == ScriptIdle /\ DockMounted /\ CursorMounted

DockNext ==
    \/ Scroll
    \/ handleDotClick
    \/ DockMouseEnter
    \/ DockMouseLeave
    \/ checkModalState

DockSpec == DockInit /\ [][DockNext]_dockVars

\* C29: once a click has set the manual-open flag the dock is expanded as
\* long as the flag is set; a scroll event that finds the flag set clears it
\* and collapses the dock when it arrives at scrollY 0 from a higher position
\* and leaves both set otherwise; a scroll event that finds the flag clear
\* leaves it clear and sets isExpanded to scrollY > 80
C29_ManualOpenLatch ==
    [][/\ isManuallyOpenRef' => isExpanded'
       /\ (dockEvent = "click" /\ dockEvent' = "scroll") => isManuallyOpenRef
       /\ dockEvent' = "scroll" =>
             IF isManuallyOpenRef
             THEN IF lastScrollY' = 0 /\ lastScrollY' < lastScrollY
                  THEN ~isManuallyOpenRef' /\ ~isExpanded'
                  ELSE isManuallyOpenRef' /\ isExpanded'
             ELSE ~isManuallyOpenRef' /\ (isExpanded' <=> lastScrollY' > 80)]_dockVars

\* the dock was opened by a click and a scroll event at a position not above
\* 80 has left it expanded
C29_Witness ==
    /\ dockEvent = "scroll"
    /\ isManuallyOpenRef /\ isExpanded
    /\ lastScrollY > 0 /\ lastScrollY <= 80

(***************************************************************************)
(* LensCursor.  The document is a small tree of boxes under the pointer:   *)
(* a magnetic zone with two targets (one with a child), a magnetic zone    *)
(* without a target, a target outside every zone and a paragraph.          *)
(* Lengths are in pixels, spring values for opacity and scale in           *)
(* hundredths, deltaX and deltaY in tenths of a pixel.                     *)
(***************************************************************************)
MaxX == 14

MaxY == 1

\* the elements in document order
DomOrder == <<"body", "text", "dock", "home", "icon", "works", "panel", "close">>

Dom ==
    [body  |-> [parent |-> "null", tag |-> "body", zone |-> FALSE, target |-> FALSE,
                rect |-> [left |-> 0, top |-> 0, width |-> MaxX + 1, height |-> MaxY + 1]],
     text  |-> [parent |-> "body", tag |-> "p", zone |-> FALSE, target |-> FALSE,
                rect |-> [left |-> 0, top |-> 0, width |-> 1, height |-> 2]],
     dock  |-> [parent |-> "body", tag |-> "div", zone |-> TRUE, target |-> FALSE,
                rect |-> [left |-> 2, top |-> 0, width |-> 7, height |-> 2]],
     home  |-> [parent |-> "dock", tag |-> "a", zone |-> FALSE, target |-> TRUE,
                rect |-> [left |-> 3, top |-> 0, width |-> 1, height |-> 2]],
     icon  |-> [parent |-> "home", tag |-> "svg", zone |-> FALSE, target |-> FALSE,
                rect |-> [left |-> 3, top |-> 0, width |-> 1, height |-> 1]],
     works |-> [parent |-> "dock", tag |-> "a", zone |-> FALSE, target |-> TRUE,
                rect |-> [left |-> 6, top |-> 0, width |-> 1, height |-> 2]],
     panel |-> [parent |-> "body", tag |-> "div", zone |-> TRUE, target |-> FALSE,
                rect |-> [left |-> 10, top |-> 0, width |-> 2, height |-> 2]],
     close |-> [parent |-> "body", tag |-> "button", zone |-> FALSE, target |-> TRUE,
                rect |-> [left |-> 13, top |-> 0, width |-> 1, height |-> 2]]]

RECURSIVE depth(_)
depth(el) == IF Dom[el].parent = "null" THEN 0 ELSE 1 + depth(Dom[el].parent)

contains(el, x, y) ==
    LET r == Dom[el].rect
    IN  /\ r.left <= x /\ x < r.left + r.width
        /\ r.top <= y /\ y < r.top + r.height

\* e.target: the innermost element under the pointer
eventTarget(x, y) ==
    LET under == {el \in DOMAIN Dom : contains(el, x, y)}
    IN  IF under = {} THEN "body"
        ELSE CHOOSE el \in under : \A o \in under : depth(o) <= depth(el)

\* el.closest("[data-magnetic-zone]") and el.closest("[data-magnetic-target]")
RECURSIVE closest(_, _)
closest(el, attr) ==
    IF el = "null" THEN "null"
    ELSE IF Dom[el][attr] THEN el
    ELSE closest(Dom[el].parent, attr)

\* el.closest("a") and el.closest("button")
RECURSIVE closestTag(_, _)
closestTag(el, tags) ==
    IF el = "null" THEN "null"
    ELSE IF Dom[el].tag \in tags THEN el
    ELSE closestTag(Dom[el].parent, tags)

RECURSIVE inside(_, _)
inside(el, anc) ==
    IF Dom[el].parent = "null" THEN FALSE
    ELSE Dom[el].parent = anc \/ inside(Dom[el].parent, anc)

\* zone.querySelectorAll("[data-magnetic-target]"), as positions of DomOrder
allTargets(zone) ==
    {i \in 1..Len(DomOrder) : Dom[DomOrder[i]].target /\ inside(DomOrder[i], zone)}

\* twice the centre of the element's bounding rect
centre2(el) ==
    LET r == Dom[el].rect
    IN  [x |-> 2 * r.left + r.width, y |-> 2 * r.top + r.height]

\* the square of twice Math.hypot(clientX - centerX, clientY - centerY)
dist2(el, x, y) ==
    LET c == centre2(el)
    IN  (2 * x - c.x) * (2 * x - c.x) + (2 * y - c.y) * (2 * y - c.y)

\* the forEach over allTargets: the first target at the least distance
nearestIn(zone, x, y) ==
    LET ts == allTargets(zone)
    IN  IF ts = {} THEN "null"
        ELSE DomOrder[CHOOSE i \in ts :
                 \A j \in ts :
                     \/ dist2(DomOrder[i], x, y) < dist2(DomOrder[j], x, y)
                     \/ dist2(DomOrder[i], x, y) = dist2(DomOrder[j], x, y) /\ i <= j]

magneticLeave(el) == [type |-> "magnetic-leave", to |-> el, detail |-> <<>>]

magneticMove(el, x, y) ==
    [type |-> "magnetic-move", to |-> el,
     detail |-> [deltaX |-> 2 * x - centre2(el).x, deltaY |-> 2 * y - centre2(el).y]]

\* variant: the old target is not told
leaveSilently(el) == <<>>

\* if (currentMagneticTarget.current) dispatch "magnetic-leave" to it
leaveOld(el) == IF el # "null" THEN <<magneticLeave(el)>> ELSE <<>>

TextTags == {"p", "span", "h1", "h2", "h3", "h4", "h5", "h6", "blockquote", "cite",
             "input", "textarea", "label", "li"}

\* Standard cursor logic, for elements that carry no data-cursor-default and
\* no class, under the global style cursor: none
standardMode(el) ==
    LET isTextElement == Dom[el].tag \in TextTags
        isClickable == closestTag(el, {"a", "button"}) # "null"
    IN  IF isClickable THEN "pointer"
        ELSE IF isTextElement THEN "text"
        ELSE "default"

\* the effect on [mode]: it runs after a render in which mode has changed
modeEffect(before, after, sp) ==
    IF after = before \/ after = "magnetic" THEN sp ELSE modeSprings(after)

handleMouseMove(x, y) ==
    LET target == eventTarget(x, y)
        magneticZone == closest(target, "zone")
        magneticElement == closest(target, "target")
        nearestTarget == IF magneticElement # "null" THEN magneticElement
                         ELSE nearestIn(magneticZone, x, y)
    IN  /\ posRef' = [x |-> x, y |-> y]
        /\ IF magneticZone # "null" \/ magneticElement # "null"
           THEN /\ mode' = "magnetic"
                /\ cursorOpacity' = 0
                /\ IF nearestTarget # "null"
                   THEN /\ currentMagneticTarget' = nearestTarget
                        /\ dispatched' =
                              (IF currentMagneticTarget # nearestTarget
                               THEN leaveOld(currentMagneticTarget) ELSE <<>>)
                              \o <<magneticMove(nearestTarget, x, y)>>
                   ELSE /\ dispatched' = <<>>
                        /\ UNCHANGED currentMagneticTarget
                /\ springs' = modeEffect(mode, "magnetic", springs)
           ELSE /\ dispatched' = leaveOld(currentMagneticTarget)
                /\ currentMagneticTarget' = "null"
                /\ cursorOpacity' = 100
                /\ mode' = standardMode(target)
                /\ springs' = modeEffect(mode, standardMode(target), springs)
        /\ cursorEvent' = "mousemove"
        /\ UNCHANGED isHidden

MouseMove ==
    /\ \E x \in 0..MaxX, y \in 0..MaxY : handleMouseMove(x, y)
    /\ UNCHANGED <<vars, dockVars>>

handleMouseLeave ==
    /\ isHidden' = TRUE
    /\ dispatched' = leaveOld(currentMagneticTarget)
    /\ currentMagneticTarget' = "null"
    /\ cursorEvent' = "mouseleave"
    /\ UNCHANGED <<mode, posRef, cursorOpacity, springs>>
    /\ UNCHANGED <<vars, dockVars>>

handleMouseEnter ==
    /\ isHidden
    /\ isHidden' = FALSE
    /\ dispatched' = <<>>
    /\ cursorEvent' = "mouseenter"
    /\ UNCHANGED <<mode, currentMagneticTarget, posRef, cursorOpacity, springs>>
    /\ UNCHANGED <<vars, dockVars>>

handleMouseDown ==
    /\ springs' = [springs EXCEPT !.scale = 85]
    /\ dispatched' = <<>>
    /\ cursorEvent' = "mousedown"
    /\ UNCHANGED <<mode, isHidden, currentMagneticTarget, posRef, cursorOpacity>>
    /\ UNCHANGED <<vars, dockVars>>

handleMouseUp ==
    /\ springs' = [springs EXCEPT !.scale = 100]
    /\ dispatched' = <<>>
    /\ cursorEvent' = "mouseup"
    /\ UNCHANGED <<mode, isHidden, currentMagneticTarget, posRef, cursorOpacity>>
    /\ UNCHANGED <<vars, dockVars>>

resetCursor ==
    /\ mode' = "default"
    /\ dispatched' = leaveOld(currentMagneticTarget)
    /\ currentMagneticTarget' = "null"
    /\ cursorOpacity' = 100
    /\ springs' = modeSprings("default")
    /\ UNCHANGED <<isHidden, posRef>>

\* the "cursor-reset" event on the window
handleCursorReset ==
    /\ resetCursor
    /\ cursorEvent' = "cursor-reset"
    /\ UNCHANGED <<vars, dockVars>>

\* the MutationObserver: data-modal-open was taken off the body
ModalClosed ==
    /\ mode = "magnetic"
    /\ resetCursor
    /\ cursorEvent' = "modal-closed"
    /\ UNCHANGED <<vars, dockVars>>

CursorInit == ScriptIdle /\ DockMounted /\ CursorMounted

CursorNext ==
    \/ MouseMove
    \/ handleMouseLeave
    \/ handleMouseEnter
    \/ handleMouseDown
    \/ handleMouseUp
    \/ handleCursorReset
    \/ ModalClosed

CursorSpec == CursorInit /\ [][CursorNext]_cursorVars

\* the pointer position is in no magnetic zone and on no magnetic target
OutsideMagnetic(p) ==
    LET el == eventTarget(p.x, p.y)
    IN  closest(el, "zone") = "null" /\ closest(el, "target") = "null"

\* C30: in every step of the cursor, whatever the event: when the tracked
\* target changes from an element X to another element or to none, the events
\* of the step hold a magnetic-leave to X, ahead of every magnetic-move to the
\* new target; every magnetic-move of the step goes to the tracked target;
\* and a mousemove outside every magnetic zone and target leaves the tracked
\* target none and the opacity spring set to 1
C30_LeaveBeforeMove ==
    [][/\ (currentMagneticTarget # "null" /\ currentMagneticTarget' # currentMagneticTarget) =>
              \E i \in 1..Len(dispatched') :
                  /\ dispatched'[i].type = "magnetic-leave"
                  /\ dispatched'[i].to = currentMagneticTarget
                  /\ \A j \in 1..Len(dispatched') :
                         dispatched'[j].type = "magnetic-move" => i < j
       /\ \A j \in 1..Len(dispatched') :
              dispatched'[j].type = "magnetic-move" =>
                  dispatched'[j].to = currentMagneticTarget'
       /\ (cursorEvent' = "mousemove" /\ OutsideMagnetic(posRef')) =>
              currentMagneticTarget' = "null" /\ cursorOpacity' = 100]_cursorVars

\* a mousemove has switched the tracked target from one element to another:
\* a leave to the old one, then a move to the new one
C30_Witness ==
    /\ cursorEvent = "mousemove"
    /\ Len(dispatched) = 2
    /\ dispatched[1].type = "magnetic-leave"
    /\ dispatched[2].type = "magnetic-move"
    /\ dispatched[1].to # dispatched[2].to
    /\ currentMagneticTarget = dispatched[2].to

=============================================================================
